---- MODULE Spec2Model ----
(***************************************************************************)
(* Verification model of the RAG chat backend (backend/app):                *)
(*   - routers/chat.py            chat_general, chat_code_assistant         *)
(*   - services/session_service.py   SessionService                         *)
(*   - services/rag_pipeline.py   RAGPipeline                               *)
(*   - services/llm_service.py    LLMService.stream_chat_completion         *)
(*   - services/vectorstore_service.py  VectorStoreService                  *)
(*   - services/chunking_service.py     ChunkingService                     *)
(* Several specifications share the variables; each one leaves the part of  *)
(* the state it does not model unchanged.                                   *)
(***************************************************************************)
EXTENDS Integers, Sequences, FiniteSets, TLC

VARIABLES
    sessions,                \* SessionService.sessions: set of known session ids
    conversation_histories,  \* SessionService.conversation_histories: id -> list of messages
    nextUuid,                \* next value of uuid.uuid4() in create_session
    rq,                      \* per HTTP request: locals of the handler and of its generator
    dbCollection,            \* id of the collection currently stored under CHROMA_COLLECTION_NAME
    dbRecords,               \* ids of the records of that collection, in insertion order
    handle,                  \* VectorStoreService.collection of every long-lived instance
    ingest,                  \* per ingest call: locals of add_document / _store_chunks_in_vectordb
    clearLog,                \* history variable: what each clear_collection call saw
    msgSeq,                  \* number of add_message_to_history calls made by the history driver
    sessions_router,         \* the SessionService of routers/sessions.py: its conversation_histories
    content,                 \* ChunkingService input: the text handed to a strategy
    metadata,                \* ChunkingService input: file_type of the text
    max_chunk_size,          \* ChunkingService.max_chunk_size
    astOutcome,              \* what the tree-sitter parse of content produced
    chunks,                  \* list returned by the chunking call
    trace,                   \* history variable: the strategy tiers the call went through
    phase,                   \* position of the chunking driver
    call,                    \* a call of one of the other functions: its name and arguments
    returned                 \* what that call returned

vars == <<sessions, conversation_histories, nextUuid, rq, dbCollection, dbRecords,
          handle, ingest, clearLog, msgSeq, sessions_router, content, metadata,
          max_chunk_size, astOutcome, chunks, trace, phase, call, returned>>

sessionVars == <<sessions, conversation_histories, nextUuid>>
chatVars    == <<rq>>
storeVars   == <<dbCollection, dbRecords, handle>>
ingestVars  == <<ingest, clearLog>>
histVars    == <<msgSeq, sessions_router>>
chunkVars   == <<content, metadata, max_chunk_size, astOutcome, chunks, trace, phase>>
callVars    == <<call, returned>>

(***************************************************************************)
(* Bounds of the model                                                      *)
(***************************************************************************)
NumReq == 2          \* HTTP requests in one behaviour
MaxTokens == 2       \* tokens one LLM stream yields at most

Req == 1..NumReq
\* The text the model answers with, token by token; the tokens differ so that
\* their order shows in a concatenation.
TokenAt(n) == IF n = 0 THEN "t1" ELSE IF n = 1 THEN "t2" ELSE IF n = 2 THEN "t3" ELSE "t4"

(***************************************************************************)
(* Program constants                                                        *)
(***************************************************************************)
MaxHistory == 50     \* session_service.py: "Keep only last 50 messages"
GeneralHistoryWindow == 10   \* llm_service.py: conversation_history[-10:]
DirectHistoryWindow == 5     \* chat.py: conversation_history[-5:]

(***************************************************************************)
(* Sequence helpers                                                         *)
(***************************************************************************)
\* Python s[-n:] for n > 0
LastN(s, n) == IF Len(s) <= n THEN s ELSE SubSeq(s, Len(s) - n + 1, Len(s))

\* Python s[:n]
FirstN(s, n) == IF Len(s) <= n THEN s ELSE SubSeq(s, 1, n)

RECURSIVE Concat(_)
\* "".join(tokens); a token is a string, modelled as the sequence of its
\* symbols: the empty token '' is <<>>, every other token is one symbol.
Concat(toks) ==
    IF toks = <<>> THEN <<>>
    ELSE (IF Head(toks) = "" THEN <<>> ELSE <<Head(toks)>>) \o Concat(Tail(toks))

(***************************************************************************)
(* Text                                                                     *)
(* A text is a sequence of one-character strings, so that str.split,        *)
(* str.strip, str.lower, the `in` test on strings and the regular           *)
(* expressions are computed on characters, as Python computes them.         *)
(***************************************************************************)
Whitespace == {" ", "\n", "\t"}

IsSpace(c) == c \in Whitespace

\* \w of the re module on ASCII text
WordChars ==
    {"a", "b", "c", "d", "e", "f", "g", "h", "i", "j", "k", "l", "m", "n", "o", "p",
     "q", "r", "s", "t", "u", "v", "w", "x", "y", "z", "A", "B", "C", "D", "E", "F",
     "G", "H", "I", "J", "K", "L", "M", "N", "O", "P", "Q", "R", "S", "T", "U", "V",
     "W", "X", "Y", "Z", "0", "1", "2", "3", "4", "5", "6", "7", "8", "9", "_"}

SetMin(S) == CHOOSE x \in S : \A y \in S : x <= y

SetMax(S) == CHOOSE x \in S : \A y \in S : y <= x

\* s[from:] of Python for a 1-based first position
From(s, first) == SubSeq(s, first, Len(s))

\* content.split('\n')
RECURSIVE split(_, _)
split(s, sep) ==
    LET at == {i \in 1..Len(s) : s[i] = sep}
    IN  IF at = {} THEN <<s>>
        ELSE <<SubSeq(s, 1, SetMin(at) - 1)>> \o split(From(s, SetMin(at) + 1), sep)

\* sep.join(parts)
RECURSIVE join(_, _)
join(parts, sep) ==
    IF parts = <<>> THEN <<>>
    ELSE IF Len(parts) = 1 THEN parts[1]
    ELSE parts[1] \o sep \o join(Tail(parts), sep)

\* s.strip()
strip(s) ==
    LET ink == {i \in 1..Len(s) : ~IsSpace(s[i])}
    IN  IF ink = {} THEN <<>> ELSE SubSeq(s, SetMin(ink), SetMax(ink))

\* len(s.split()): the number of maximal runs of non-whitespace characters
word_count(s) ==
    Cardinality({i \in 1..Len(s) : ~IsSpace(s[i]) /\ (i = 1 \/ IsSpace(s[i - 1]))})

\* s[a..b] is whitespace only (true for an empty range)
AllSpace(s, a, b) == \A j \in a..b : IsSpace(s[j])

\* kw occurs in s at position i
StartsWithAt(s, i, kw) ==
    /\ i >= 1
    /\ i + Len(kw) - 1 <= Len(s)
    /\ \A j \in 1..Len(kw) : s[i + j - 1] = kw[j]

(***************************************************************************)
(* routers/chat.py: should_use_rag                                          *)
(***************************************************************************)
UpperCase ==
    <<"A", "B", "C", "D", "E", "F", "G", "H", "I", "J", "K", "L", "M",
      "N", "O", "P", "Q", "R", "S", "T", "U", "V", "W", "X", "Y", "Z">>

LowerCase ==
    <<"a", "b", "c", "d", "e", "f", "g", "h", "i", "j", "k", "l", "m",
      "n", "o", "p", "q", "r", "s", "t", "u", "v", "w", "x", "y", "z">>

\* s.lower() on ASCII text
lower(s) ==
    [i \in 1..Len(s) |->
        IF \E k \in 1..26 : UpperCase[k] = s[i]
        THEN LowerCase[CHOOSE k \in 1..26 : UpperCase[k] = s[i]]
        ELSE s[i]]

\* pattern in s: pattern is a substring of s
Occurs(pattern, s) == \E i \in 1..(Len(s) + 1) : StartsWithAt(s, i, pattern)

simple_patterns ==
    { <<"h", "i">>, <<"h", "e", "l", "l", "o">>, <<"h", "e", "y">>,
      <<"g", "o", "o", "d", " ", "m", "o", "r", "n", "i", "n", "g">>,
      <<"g", "o", "o", "d", " ", "a", "f", "t", "e", "r", "n", "o", "o", "n">>,
      <<"g", "o", "o", "d", " ", "e", "v", "e", "n", "i", "n", "g">>,
      <<"h", "o", "w", " ", "a", "r", "e", " ", "y", "o", "u">>,
      <<"w", "h", "a", "t", "'", "s", " ", "u", "p">>, <<"t", "h", "a", "n", "k", "s">>,
      <<"t", "h", "a", "n", "k", " ", "y", "o", "u">>, <<"b", "y", "e">>,
      <<"g", "o", "o", "d", "b", "y", "e">>, <<"o", "k">>, <<"o", "k", "a", "y">>,
      <<"y", "e", "s">>, <<"n", "o">>, <<"s", "u", "r", "e">>, <<"g", "r", "e", "a", "t">>,
      <<"a", "w", "e", "s", "o", "m", "e">>, <<"c", "o", "o", "l">> }

project_keywords ==
    { <<"p", "r", "o", "j", "e", "c", "t">>, <<"c", "o", "d", "e">>, <<"a", "p", "i">>,
      <<"e", "n", "d", "p", "o", "i", "n", "t">>, <<"b", "a", "c", "k", "e", "n", "d">>,
      <<"f", "r", "o", "n", "t", "e", "n", "d">>, <<"d", "o", "c", "k", "e", "r">>,
      <<"f", "a", "s", "t", "a", "p", "i">>,
      <<"s", "t", "r", "e", "a", "m", "l", "i", "t">>,
      <<"c", "h", "r", "o", "m", "a", "d", "b">>, <<"g", "r", "o", "q">>,
      <<"r", "a", "g">>, <<"d", "a", "t", "a", "b", "a", "s", "e">>,
      <<"d", "e", "p", "l", "o", "y", "m", "e", "n", "t">>,
      <<"c", "o", "n", "t", "a", "i", "n", "e", "r">>,
      <<"s", "e", "r", "v", "i", "c", "e">>, <<"f", "u", "n", "c", "t", "i", "o", "n">>,
      <<"c", "l", "a", "s", "s">>, <<"m", "e", "t", "h", "o", "d">>,
      <<"e", "r", "r", "o", "r">>, <<"b", "u", "g">>, <<"f", "i", "x">>,
      <<"i", "m", "p", "l", "e", "m", "e", "n", "t">>, <<"c", "r", "e", "a", "t", "e">>,
      <<"a", "d", "d">>, <<"m", "o", "d", "i", "f", "y">>,
      <<"u", "p", "d", "a", "t", "e">>,
      <<"a", "r", "c", "h", "i", "t", "e", "c", "t", "u", "r", "e">>,
      <<"s", "t", "r", "u", "c", "t", "u", "r", "e">>, <<"d", "e", "s", "i", "g", "n">>,
      <<"p", "a", "t", "t", "e", "r", "n">>,
      <<"c", "o", "n", "f", "i", "g", "u", "r", "a", "t", "i", "o", "n">>,
      <<"t", "r", "o", "u", "b", "l", "e", "s", "h", "o", "o", "t">>,
      <<"d", "e", "b", "u", "g">>, <<"o", "p", "t", "i", "m", "i", "z", "e">>,
      <<"p", "e", "r", "f", "o", "r", "m", "a", "n", "c", "e">> }

self_reference_phrases ==
    { <<"t", "h", "i", "s", " ", "p", "r", "o", "j", "e", "c", "t">>,
      <<"m", "y", " ", "p", "r", "o", "j", "e", "c", "t">>,
      <<"o", "u", "r", " ", "p", "r", "o", "j", "e", "c", "t">>,
      <<"t", "h", "i", "s", " ", "c", "o", "d", "e">>,
      <<"m", "y", " ", "c", "o", "d", "e">> }

\* should_use_rag that looks for the project keywords before the greetings
should_use_rag_keywords_first(message) ==
    LET message_lower == strip(lower(message))
    IN  IF \E k \in project_keywords : Occurs(k, message_lower)
        THEN TRUE
        ELSE IF (\E p \in simple_patterns : Occurs(p, message_lower)) /\ word_count(message) <= 3
        THEN FALSE
        ELSE IF \E w \in self_reference_phrases : Occurs(w, message_lower)
        THEN TRUE
        ELSE FALSE

should_use_rag(message) ==
    LET message_lower == strip(lower(message))
    IN  IF (\E p \in simple_patterns : Occurs(p, message_lower)) /\ word_count(message) <= 3
        THEN FALSE
        ELSE IF \E k \in project_keywords : Occurs(k, message_lower)
        THEN TRUE
        ELSE IF \E w \in self_reference_phrases : Occurs(w, message_lower)
        THEN TRUE
        ELSE FALSE

\* request.message values the chat specification sends: "hi", "fix the bug"
Messages == { <<"h", "i">>, <<"f", "i", "x", " ", "t", "h", "e", " ", "b", "u", "g">> }

(***************************************************************************)
(* services/session_service.py: SessionService                              *)
(* A history message is [role, content, req]; req stands for the timestamp  *)
(* and tells the messages of different requests apart.                      *)
(***************************************************************************)
Msg(role, body, r) == [role |-> role, content |-> body, req |-> r]

\* create_session: a fresh uuid, an entry in sessions and an empty history
create_session(S, H, uuid) ==
    [sessions |-> S \cup {uuid}, histories |-> (uuid :> <<>>) @@ H,
     nextUuid |-> uuid + 1, session_id |-> uuid]

\* get_or_create_session: the supplied id when it is known, else a new session
get_or_create_session(S, H, uuid, sid) ==
    IF sid \in S
    THEN [sessions |-> S, histories |-> H, nextUuid |-> uuid, session_id |-> sid]
    ELSE create_session(S, H, uuid)

\* The list object that add_message_to_history appends to in place
AppendedList(H, sid, msg) ==
    IF sid \in DOMAIN H THEN Append(H[sid], msg) ELSE <<msg>>

\* add_message_to_history that keeps the first 50 instead of the last 50
add_message_to_history_keep_first(H, sid, msg) ==
    LET appended == AppendedList(H, sid, msg)
    IN  (sid :> (IF Len(appended) > MaxHistory THEN FirstN(appended, MaxHistory)
                 ELSE appended)) @@ H

\* add_message_to_history: append, then keep the last 50
add_message_to_history(H, sid, msg) ==
    LET appended == AppendedList(H, sid, msg)
    IN  (sid :> (IF Len(appended) > MaxHistory THEN LastN(appended, MaxHistory)
                 ELSE appended)) @@ H

\* get_conversation_history: the stored list, [] for an unknown id
get_conversation_history(H, sid) == IF sid \in DOMAIN H THEN H[sid] ELSE <<>>

\* clear_conversation_history: (new histories, number of messages cleared)
clear_conversation_history(H, sid) ==
    IF sid \in DOMAIN H
    THEN [histories |-> [H EXCEPT ![sid] = <<>>], cleared |-> Len(H[sid])]
    ELSE [histories |-> H, cleared |-> 0]

\* cleanup_expired_sessions: the expired ids leave sessions and the histories
cleanup_expired_sessions(S, H, expired) ==
    [sessions |-> S \ expired,
     histories |-> [s \in (DOMAIN H) \ expired |-> H[s]]]

(***************************************************************************)
(* conversation_history, the handler's local, is a reference to the list    *)
(* object stored in conversation_histories: it sees the in-place appends    *)
(* until the service rebinds the entry to a new list (the slice in          *)
(* add_message_to_history, clear, cleanup).  live says that the reference   *)
(* is still the stored list; snap is the content of the orphaned list.      *)
(***************************************************************************)
HistoryRef(sid) == [live |-> TRUE, sid |-> sid, snap |-> <<>>]

Deref(ref, H) ==
    IF ref.live /\ ref.sid \in DOMAIN H THEN H[ref.sid] ELSE ref.snap

\* The references after add_message_to_history(sid, msg) ran on histories H
RefsAfterAdd(R, H, sid, msg) ==
    [r \in DOMAIN R |->
        IF /\ R[r].conversation_history.live
           /\ R[r].conversation_history.sid = sid
           /\ Len(AppendedList(H, sid, msg)) > MaxHistory
        THEN [R[r] EXCEPT !.conversation_history =
                 [live |-> FALSE, sid |-> sid, snap |-> AppendedList(H, sid, msg)]]
        ELSE R[r]]

(***************************************************************************)
(* services/vectorstore_service.py and rag_pipeline.get_pipeline_status     *)
(* An operation on a collection handle raises when the collection the       *)
(* handle refers to was deleted (clear_collection of another instance).     *)
(***************************************************************************)
Instances == {"chat", "admin", "code_assistant", "ingestion"}

\* health_check: collection.count() does not raise
health_check(inst) == handle[inst] = dbCollection

\* get_collection_stats()['total_chunks']: count(), 0 when it raises
total_chunks(inst) == IF handle[inst] = dbCollection THEN Len(dbRecords) ELSE 0

\* get_pipeline_status()['is_ready']
is_ready(inst) == health_check(inst) /\ total_chunks(inst) > 0

(***************************************************************************)
(* services/llm_service.py and rag_pipeline.process_query: the generators   *)
(* A generator step is what one resumption does up to its next yield; its   *)
(* outcome is a yielded token or the end of the generator.                  *)
(***************************************************************************)
ErrLLM == "Error: e"                    \* llm_service.py: yield f"Error: {str(e)}"
ErrRAG == "Error in RAG pipeline: e"    \* rag_pipeline.py: the except branch of process_query
Canned == "I don't have access to your project documentation yet."
ErrorTokens == {ErrLLM, ErrRAG}

End(llmState) == [kind |-> "end", token |-> "", llm |-> llmState, caught |-> FALSE]

\* stream_chat_completion: tokens as they arrive; an exception of the API
\* call or of the iteration is caught, one "Error: ..." token is yielded and
\* the generator returns.  n is the number of tokens already delivered.
stream_chat_completion(llm, n) ==
    IF llm = "failed"
    THEN { End("closed") }
    ELSE { [kind |-> "token", token |-> TokenAt(k), llm |-> "open", caught |-> FALSE] :
               k \in (IF n < MaxTokens THEN {n} ELSE {}) }
         \cup { [kind |-> "token", token |-> ErrLLM, llm |-> "failed", caught |-> TRUE] }
         \cup { End("closed") }

PipelineStages == <<"EMBED", "SEARCH", "FORMAT", "COMPOSE">>

\* What a step of stream_chat_completion is to process_query's consumer
Relay(o, stages) ==
    [kind |-> o.kind, token |-> o.token,
     pq |-> (IF o.kind = "end" THEN "closed" ELSE "streaming"), llm |-> o.llm,
     stages |-> stages, failed |-> (IF o.caught THEN "GENERATE" ELSE "none")]

\* process_query without its try/except: the exception of a stage leaves the
\* generator
process_query_reraise(pq, llm, n) ==
    IF pq = "new"
    THEN { [kind |-> "raise", token |-> "", pq |-> "failed", llm |-> llm,
            stages |-> SubSeq(PipelineStages, 1, k), failed |-> PipelineStages[k]] :
               k \in 1..Len(PipelineStages) }
         \cup
         { Relay(o, Append(PipelineStages, "GENERATE")) :
               o \in stream_chat_completion("new", n) }
    ELSE { Relay(o, <<>>) : o \in stream_chat_completion(llm, n) }

\* process_query: the four stages run in order inside the try block; the
\* first one that raises ends the block, the except branch yields one error
\* token and the generator returns.  Without a failure the tokens of
\* stream_chat_completion are passed on.  failed names the stage whose
\* exception this step handled.
process_query(pq, llm, n) ==
    IF pq = "new"
    THEN { [kind |-> "token", token |-> ErrRAG, pq |-> "failed", llm |-> llm,
            stages |-> SubSeq(PipelineStages, 1, k), failed |-> PipelineStages[k]] :
               k \in 1..Len(PipelineStages) }
         \cup
         { Relay(o, Append(PipelineStages, "GENERATE")) :
               o \in stream_chat_completion("new", n) }
    ELSE IF pq = "streaming"
    THEN { Relay(o, <<>>) : o \in stream_chat_completion(llm, n) }
    ELSE { [kind |-> "end", token |-> "", pq |-> "closed", llm |-> llm,
            stages |-> <<>>, failed |-> "none"] }

(***************************************************************************)
(* routers/chat.py: the two endpoints                                       *)
(***************************************************************************)
ClientUuid == 0      \* a session id the client made up (frontend uuid4), unknown to the backend

SystemGeneral == [role |-> "system", content |-> <<"general">>]
SystemDirect  == [role |-> "system", content |-> <<"concise">>]

RoleContent(msg) == [role |-> msg.role, content |-> msg.content]

\* llm_service.format_messages_for_general_chat
format_messages_for_general_chat(user_message, history) ==
    <<SystemGeneral>>
    \o [i \in 1..Len(LastN(history, GeneralHistoryWindow)) |->
            RoleContent(LastN(history, GeneralHistoryWindow)[i])]
    \o <<[role |-> "user", content |-> user_message]>>

\* chat_code_assistant, third branch: messages.insert(-1, msg) for the last 5
direct_messages(user_message, history) ==
    <<SystemDirect>>
    \o [i \in 1..Len(LastN(history, DirectHistoryWindow)) |->
            RoleContent(LastN(history, DirectHistoryWindow)[i])]
    \o <<[role |-> "user", content |-> user_message]>>

IdleRequest ==
    [pc |-> "idle", endpoint |-> "none", message |-> <<>>, client_sid |-> 0,
     session_id |-> 0, conversation_history |-> HistoryRef(0), branch |-> "none",
     needs_rag |-> FALSE, ready |-> FALSE, pq |-> "new", llm |-> "new",
     full_response |-> <<>>, yielded |-> <<>>, stages |-> <<>>, failed |-> "none",
     llm_messages |-> <<>>]

\* chat_code_assistant without the is_ready test
BranchIgnoreReady(needs_rag, ready) == IF needs_rag THEN "rag" ELSE "no_context"

\* The branch of chat_code_assistant
Branch(needs_rag, ready) ==
    IF needs_rag /\ ~ready THEN "not_ready"
    ELSE IF needs_rag /\ ready THEN "rag"
    ELSE "no_context"

\* Lines 66-73 and 116-123: session, history reference, user message
Accept(r, endpoint, message, csid) ==
    LET g   == get_or_create_session(sessions, conversation_histories, nextUuid, csid)
        msg == Msg("user", message, r)
        R1  == [rq EXCEPT ![r] = [IdleRequest EXCEPT
                    !.pc = "created", !.endpoint = endpoint, !.message = message,
                    !.client_sid = csid, !.session_id = g.session_id,
                    !.conversation_history = HistoryRef(g.session_id)]]
    IN  [sessions |-> g.sessions,
         nextUuid |-> g.nextUuid,
         histories |-> add_message_to_history(g.histories, g.session_id, msg),
         rq |-> RefsAfterAdd(R1, g.histories, g.session_id, msg)]

\* POST /general
chat_general(r, message, csid) ==
    /\ rq[r].pc = "idle"
    /\ (IF r = 1 THEN TRUE ELSE rq[r - 1].pc # "idle")
    /\ LET a == Accept(r, "general", message, csid)
       IN  /\ sessions' = a.sessions
           /\ nextUuid' = a.nextUuid
           /\ conversation_histories' = a.histories
           /\ rq' = [a.rq EXCEPT
                  ![r].branch = "general",
                  ![r].llm_messages = format_messages_for_general_chat(message,
                        Deref(a.rq[r].conversation_history, a.histories))]
    /\ UNCHANGED <<callVars, storeVars, ingestVars, histVars, chunkVars>>

\* POST /code-assistant
chat_code_assistant(r, message, csid) ==
    /\ rq[r].pc = "idle"
    /\ (IF r = 1 THEN TRUE ELSE rq[r - 1].pc # "idle")
    /\ LET a == Accept(r, "code_assistant", message, csid)
       IN  /\ sessions' = a.sessions
           /\ nextUuid' = a.nextUuid
           /\ conversation_histories' = a.histories
           /\ rq' = [a.rq EXCEPT
                  ![r].needs_rag = should_use_rag(message),
                  ![r].ready = is_ready("chat"),
                  ![r].branch = Branch(should_use_rag(message), is_ready("chat"))]
    /\ UNCHANGED <<callVars, storeVars, ingestVars, histVars, chunkVars>>

\* full_response += token
accumulate(full_response, token) == full_response \o Concat(<<token>>)

\* Loop body of generate_response: accumulate the token, then yield it
OnToken(R, r, token) ==
    [R EXCEPT ![r].full_response = accumulate(@, token),
              ![r].yielded = Append(@, token),
              ![r].pc = "streaming"]

\* After the loop: the assistant message the generator appends
AssistantMessage(r) == Msg("assistant", rq[r].full_response, r)

\* After the loop: append the assistant message, yield the completion signal
OnEnd(R, r) ==
    RefsAfterAdd([R EXCEPT ![r].yielded = Append(@, ""), ![r].pc = "complete"],
                 conversation_histories, rq[r].session_id, AssistantMessage(r))

HistoriesOnEnd(r) ==
    add_message_to_history(conversation_histories, rq[r].session_id, AssistantMessage(r))

\* An exception leaves the inner generator: generate_response does not catch it
OnRaise(R, r) == [R EXCEPT ![r].pc = "raised"]

\* One resumption of generate_response with outcome o of the inner generator;
\* R is rq with the inner generator's own state already updated.
Resume(r, R, o) ==
    /\ rq' = (IF o.kind = "token" THEN OnToken(R, r, o.token)
              ELSE IF o.kind = "end" THEN OnEnd(R, r)
              ELSE OnRaise(R, r))
    /\ conversation_histories' =
          (IF o.kind = "end" THEN HistoriesOnEnd(r) ELSE conversation_histories)

\* chat_general.generate_response, one resumption
generate_response_general(r) ==
    /\ rq[r].branch = "general"
    /\ rq[r].pc \in {"created", "streaming"}
    /\ \E o \in stream_chat_completion(rq[r].llm, Len(rq[r].yielded)) :
          Resume(r, [rq EXCEPT ![r].llm = o.llm,
                               ![r].failed = IF o.caught THEN "GENERATE" ELSE @], o)
    /\ UNCHANGED <<callVars, sessions, nextUuid, storeVars, ingestVars, histVars, chunkVars>>

\* chat_code_assistant.generate_response of the RAG branch, one resumption
generate_response_rag(r) ==
    /\ rq[r].branch = "rag"
    /\ rq[r].pc \in {"created", "streaming"}
    /\ \E o \in process_query(rq[r].pq, rq[r].llm, Len(rq[r].yielded)) :
          Resume(r, [rq EXCEPT ![r].llm = o.llm, ![r].pq = o.pq,
                               ![r].stages = @ \o o.stages,
                               ![r].failed = IF o.failed # "none" THEN o.failed ELSE @], o)
    /\ UNCHANGED <<callVars, sessions, nextUuid, storeVars, ingestVars, histVars, chunkVars>>

\* chat_code_assistant.generate_response of the general-LLM branch, one
\* resumption; the first one builds the message list
generate_response_direct(r) ==
    /\ rq[r].branch = "no_context"
    /\ rq[r].pc \in {"created", "streaming"}
    /\ \E o \in stream_chat_completion(rq[r].llm, Len(rq[r].yielded)) :
          Resume(r, [rq EXCEPT
                        ![r].llm = o.llm,
                        ![r].failed = IF o.caught THEN "GENERATE" ELSE @,
                        ![r].stages = IF rq[r].pc = "created" THEN <<"GENERATE">> ELSE @,
                        ![r].llm_messages =
                            IF rq[r].pc = "created"
                            THEN direct_messages(rq[r].message,
                                    Deref(rq[r].conversation_history, conversation_histories))
                            ELSE @], o)
    /\ UNCHANGED <<callVars, sessions, nextUuid, storeVars, ingestVars, histVars, chunkVars>>

\* chat_code_assistant.generate_response of the not-ready branch: one yield,
\* the canned message with the complete flag
generate_response_not_ready(r) ==
    /\ rq[r].branch = "not_ready"
    /\ rq[r].pc = "created"
    /\ rq' = [rq EXCEPT ![r].yielded = Append(@, Canned), ![r].pc = "complete"]
    /\ UNCHANGED <<callVars, sessionVars, storeVars, ingestVars, histVars, chunkVars>>

\* The consumer asks for the item after the last yield: StopAsyncIteration
finish(r) ==
    /\ rq[r].pc = "complete"
    /\ rq' = [rq EXCEPT ![r].pc = "done"]
    /\ UNCHANGED <<callVars, sessionVars, storeVars, ingestVars, histVars, chunkVars>>

\* A generator that flushes what it accumulated when it is closed
abandon_flush(r) ==
    /\ rq[r].pc \in {"created", "streaming", "complete"}
    /\ rq' = [rq EXCEPT ![r].pc = "abandoned"]
    /\ conversation_histories' =
          (IF rq[r].pc = "streaming" THEN HistoriesOnEnd(r) ELSE conversation_histories)
    /\ UNCHANGED <<callVars, sessions, nextUuid, storeVars, ingestVars, histVars, chunkVars>>

\* The consumer stops reading (client disconnect): the generator is closed at
\* the yield it is suspended at; no statement after that yield runs, and
\* `except Exception` does not catch GeneratorExit.
abandon(r) ==
    /\ rq[r].pc \in {"created", "streaming", "complete"}
    /\ rq' = [rq EXCEPT ![r].pc = "abandoned"]
    /\ UNCHANGED <<callVars, sessionVars, storeVars, ingestVars, histVars, chunkVars>>

(***************************************************************************)
(* Specification of the chat endpoints                                      *)
(***************************************************************************)
EmptyMap == [x \in {} |-> <<>>]

\* The parts of the state a specification does not use
InitSessionsIdle ==
    /\ sessions = {}
    /\ conversation_histories = EmptyMap
    /\ nextUuid = 1

InitChatIdle == rq = [r \in Req |-> IdleRequest]

InitStoreIdle ==
    /\ dbCollection = 1
    /\ dbRecords = <<>>
    /\ handle = [i \in Instances |-> 1]

InitIngestIdle ==
    /\ ingest = EmptyMap
    /\ clearLog = <<>>

InitHistIdle ==
    /\ msgSeq = EmptyMap
    /\ sessions_router = EmptyMap

InitCallIdle ==
    /\ call = [fn |-> "none"]
    /\ returned = "none"

InitChunkIdle ==
    /\ content = <<>>
    /\ metadata = "none"
    /\ max_chunk_size = 0
    /\ astOutcome = "none"
    /\ chunks = <<>>
    /\ trace = <<>>
    /\ phase = "idle"

\* The knowledge base as ingestion and clear calls left it: empty or not,
\* and the chat router's handle current or stale.
Init ==
    /\ InitSessionsIdle
    /\ InitChatIdle
    /\ dbCollection = 1
    /\ dbRecords \in {<<>>, <<1>>}
    /\ handle \in {[i \in Instances |-> IF i = "chat" THEN h ELSE 1] : h \in {0, 1}}
    /\ InitIngestIdle
    /\ InitHistIdle
    /\ InitChunkIdle
    /\ InitCallIdle

Next ==
    \/ \E r \in Req, m \in Messages, csid \in sessions \cup {ClientUuid} :
          chat_general(r, m, csid)
    \/ \E r \in Req, m \in Messages, csid \in sessions \cup {ClientUuid} :
          chat_code_assistant(r, m, csid)
    \/ \E r \in Req : generate_response_general(r)
    \/ \E r \in Req : generate_response_rag(r)
    \/ \E r \in Req : generate_response_direct(r)
    \/ \E r \in Req : generate_response_not_ready(r)
    \/ \E r \in Req : finish(r)
    \/ \E r \in Req : abandon(r)

Spec == Init /\ [][Next]_vars

TypeOK ==
    /\ sessions \subseteq 1..NumReq
    /\ DOMAIN conversation_histories = sessions
    /\ \A r \in Req : rq[r].pc \in {"idle", "created", "streaming", "complete", "done",
                                     "abandoned", "raised"}

(***************************************************************************)
(* Properties of the chat endpoints (specification Spec)                    *)
(***************************************************************************)
\* Positions of the messages of request r with the given role in history h
Positions(h, role, r) == {i \in 1..Len(h) : h[i].role = role /\ h[i].req = r}

HasAssistant(r) ==
    \E s \in DOMAIN conversation_histories :
        Positions(conversation_histories[s], "assistant", r) # {}

\* The generator that produces the tokens of request r has returned
SourceExhausted(r) ==
    IF rq[r].branch = "rag" THEN rq[r].pq = "closed" ELSE rq[r].llm = "closed"

\* C1: a request whose stream the consumer abandoned before the token
\* generator was exhausted never has an assistant message in any history; an
\* assistant message exists only once the generator has yielded its last token.
C1_StreamAbandonSafety ==
    \A r \in Req :
        /\ (rq[r].pc = "abandoned" /\ ~SourceExhausted(r)) => ~HasAssistant(r)
        /\ HasAssistant(r) => SourceExhausted(r)

\* Some request was abandoned after tokens were delivered and accumulated
C1_Witness ==
    \E r \in Req :
        /\ rq[r].pc = "abandoned"
        /\ ~SourceExhausted(r)
        /\ rq[r].full_response # <<>>
        /\ Len(rq[r].yielded) >= 1

IsPrefix(s, t) == Len(s) <= Len(t) /\ s = SubSeq(t, 1, Len(s))

\* C2: a code-assistant query takes exactly one of three branches.  Router
\* says false: straight to the generator.  Router says true and the store is
\* not ready: only the canned message, no embedder, search or generator call.
\* Router says true and ready: EMBED, SEARCH, FORMAT, COMPOSE, GENERATE in
\* that order.  Ready is: health check passes and stored chunk count > 0.
C2_ThreeBranches ==
    \A r \in Req :
        rq[r].endpoint = "code_assistant" =>
            LET needs == should_use_rag(rq[r].message)
                ready == handle["chat"] = dbCollection /\ Len(dbRecords) > 0
                order == <<"EMBED", "SEARCH", "FORMAT", "COMPOSE", "GENERATE">>
            IN  /\ rq[r].ready = ready
                /\ ~needs =>
                      /\ rq[r].branch = "no_context"
                      /\ rq[r].stages = (IF rq[r].yielded = <<>> THEN <<>> ELSE <<"GENERATE">>)
                /\ (needs /\ ~ready) =>
                      /\ rq[r].branch = "not_ready"
                      /\ rq[r].stages = <<>>
                      /\ rq[r].yielded \in {<<>>, <<Canned>>}
                /\ (needs /\ ready) =>
                      /\ rq[r].branch = "rag"
                      /\ IsPrefix(rq[r].stages, order)
                      /\ (rq[r].yielded # <<>> /\ rq[r].failed \in {"none", "GENERATE"})
                            => rq[r].stages = order

\* A RAG query ran all five stages and was drained
C2_Witness ==
    \E r \in Req :
        /\ rq[r].branch = "rag"
        /\ rq[r].pc = "done"
        /\ rq[r].stages = <<"EMBED", "SEARCH", "FORMAT", "COMPOSE", "GENERATE">>
        /\ Len(rq[r].yielded) >= 2

\* C3: every query whose stream was drained has exactly one assistant record
\* in its session's history, after the request's user message, whose content
\* is the concatenation of the tokens yielded to the caller.
C3_OneAssistantRecordPerDrainedQuery ==
    \A r \in Req :
        rq[r].pc = "done" =>
            LET h == get_conversation_history(conversation_histories, rq[r].session_id)
                A == Positions(h, "assistant", r)
                U == Positions(h, "user", r)
            IN  /\ Cardinality(A) = 1
                /\ \A i \in A :
                      /\ \E u \in U : u < i
                      /\ h[i].content = Concat(rq[r].yielded)

NotEmptyToken(t) == t # ""

\* C4: process_query never lets an exception reach its consumer; when a stage
\* raised, the stream holds exactly one error token and no token follows it.
C4_ErrorTokenTerminal ==
    \A r \in Req :
        rq[r].branch = "rag" =>
            LET y    == SelectSeq(rq[r].yielded, NotEmptyToken)
                errs == {i \in 1..Len(y) : y[i] \in ErrorTokens}
            IN  /\ rq[r].pc # "raised"
                /\ Cardinality(errs) <= 1
                /\ \A i \in errs : i = Len(y)
                /\ rq[r].failed # "none" => Cardinality(errs) = 1

\* The generate stage raised after a token was yielded, and the stream was drained
C4_Witness ==
    \E r \in Req :
        /\ rq[r].branch = "rag"
        /\ rq[r].failed = "GENERATE"
        /\ rq[r].pc = "done"
        /\ rq[r].yielded = <<TokenAt(0), ErrLLM, "">>

\* C6: whatever the interleaving of the requests on one session, every
\* assistant message directly follows the user message of its own request.
C6_SameSessionAppendsSerialized ==
    \A s \in DOMAIN conversation_histories :
        LET h == conversation_histories[s]
        IN  \A i \in 1..Len(h) :
                h[i].role = "assistant" =>
                    /\ i > 1
                    /\ h[i - 1].role = "user"
                    /\ h[i - 1].req = h[i].req

(***************************************************************************)
(* Specification of the session store on its own: any sequence of           *)
(* get_or_create_session, add_message_to_history,                           *)
(* clear_conversation_history and cleanup_expired_sessions calls.           *)
(* msgSeq[s] counts the appends to session s (n) and remembers the count at *)
(* the last clear or cleanup (base); the n-th message appended to s has     *)
(* content <<n>>.                                                           *)
(***************************************************************************)
MaxSessions == 1     \* session ids the history driver uses
MaxAppends == 52     \* add_message_to_history calls in one behaviour

SessIds == 1..MaxSessions

Appends == LET RECURSIVE Sum(_)
               Sum(S) == IF S = {} THEN 0
                         ELSE LET x == CHOOSE y \in S : TRUE
                              IN  msgSeq[x].n + Sum(S \ {x})
           IN  Sum(DOMAIN msgSeq)

RoleOf(n) == IF n % 2 = 1 THEN "user" ELSE "assistant"

hist_get_or_create_session(csid) ==
    /\ nextUuid <= MaxSessions \/ csid \in sessions
    /\ LET g == get_or_create_session(sessions, conversation_histories, nextUuid, csid)
       IN  /\ sessions' = g.sessions
           /\ conversation_histories' = g.histories
           /\ nextUuid' = g.nextUuid
    /\ UNCHANGED <<callVars, chatVars, storeVars, ingestVars, histVars, chunkVars>>

\* s is an id create_session handed out (uuids are never reused or guessed)
hist_add_message_to_history(s) ==
    /\ s < nextUuid
    /\ Appends < MaxAppends
    /\ LET n == msgSeq[s].n + 1
       IN  /\ conversation_histories' =
                 add_message_to_history(conversation_histories, s, Msg(RoleOf(n), <<n>>, 0))
           /\ msgSeq' = [msgSeq EXCEPT ![s].n = n]
    /\ UNCHANGED <<callVars, sessions, nextUuid, chatVars, storeVars, ingestVars, chunkVars,
                   sessions_router>>

hist_clear_conversation_history(s) ==
    /\ s < nextUuid
    /\ conversation_histories' = clear_conversation_history(conversation_histories, s).histories
    /\ msgSeq' = [msgSeq EXCEPT ![s].base = IF s \in DOMAIN conversation_histories
                                            THEN msgSeq[s].n ELSE @]
    /\ UNCHANGED <<callVars, sessions, nextUuid, chatVars, storeVars, ingestVars, chunkVars,
                   sessions_router>>

hist_cleanup_expired_sessions(expired) ==
    /\ expired # {}
    /\ LET c == cleanup_expired_sessions(sessions, conversation_histories, expired)
       IN  /\ sessions' = c.sessions
           /\ conversation_histories' = c.histories
    /\ msgSeq' = [s \in DOMAIN msgSeq |->
                    IF s \in expired THEN [msgSeq[s] EXCEPT !.base = msgSeq[s].n]
                    ELSE msgSeq[s]]
    /\ UNCHANGED <<callVars, nextUuid, chatVars, storeVars, ingestVars, chunkVars,
                   sessions_router>>

InitHist ==
    /\ InitSessionsIdle
    /\ InitChatIdle
    /\ InitStoreIdle
    /\ InitIngestIdle
    /\ msgSeq = [s \in SessIds |-> [n |-> 0, base |-> 0]]
    /\ sessions_router = EmptyMap
    /\ InitChunkIdle
    /\ InitCallIdle

NextHist ==
    \/ \E csid \in sessions \cup {ClientUuid} : hist_get_or_create_session(csid)
    \/ \E s \in SessIds : hist_add_message_to_history(s)
    \/ \E s \in SessIds : hist_clear_conversation_history(s)
    \/ \E expired \in SUBSET sessions : hist_cleanup_expired_sessions(expired)

SpecHist == InitHist /\ [][NextHist]_vars

Min(a, b) == IF a <= b THEN a ELSE b

\* C7: after any sequence of session store calls every history holds at most
\* 50 messages, and what it holds are the most recently appended messages of
\* that session since its last clear, in the order they were appended.
C7_HistoryCap ==
    \A s \in DOMAIN conversation_histories :
        LET h == conversation_histories[s]
            k == Len(h)
        IN  /\ k <= 50
            /\ k = Min(50, msgSeq[s].n - msgSeq[s].base)
            /\ \A i \in 1..k : h[i].content = <<msgSeq[s].n - k + i>>

\* A history is full and its oldest messages were evicted
C7_Witness ==
    \E s \in DOMAIN conversation_histories :
        /\ Len(conversation_histories[s]) = 50
        /\ msgSeq[s].n - msgSeq[s].base > 51

(***************************************************************************)
(* Specification of the vector store under concurrent ingest and clear      *)
(* calls.  The event loop runs a coroutine until it awaits something that   *)
(* suspends; an ingest call suspends at the embedding of a chunk            *)
(* (embedding_service._embed_with_local awaits run_in_executor), so one      *)
(* step of an ingest is "embedding returned, insert, continue to the next   *)
(* embedding or return".  clear_collection has no await that suspends.      *)
(* A record of the collection is <<k, i>>: chunk i of ingest call k.        *)
(***************************************************************************)
MaxIngest == 2       \* ingest calls in one behaviour
MaxChunks == 2       \* chunks of one add_document call at most
MaxClears == 2       \* clear_collection calls in one behaviour

embedding_batch_size == 10   \* file_ingestion_service.py: embedding_batch_size = 10

IngestIds == 1..MaxIngest

IdleIngest ==
    [pc |-> "idle", kind |-> "none", collection |-> 0, n |-> 0, i |-> 0,
     chunks_added |-> 0, status |-> "none", stored_at_return |-> 0]

\* Records of ingest call k that are in the collection
StoredOf(records, k) == {j \in 1..Len(records) : records[j][1] = k}

\* chunks[i : i + embedding_batch_size] of ingest k, as records
BatchRecords(k, i, n) ==
    [j \in 1..(Min(n, i + embedding_batch_size) - i) |-> <<k, i + j - 1>>]

StartsInOrder(k) == IF k = 1 THEN TRUE ELSE ingest[k - 1].pc # "idle"

\* admin.process_data_files / main.process_data_directory: a new RAGPipeline
\* (whose VectorStoreService opens the collection as it is now), then
\* add_document up to its first await; n is the number of chunks.
add_document(k, n) ==
    /\ ingest[k].pc = "idle"
    /\ StartsInOrder(k)
    /\ ingest' = [ingest EXCEPT ![k] =
          IF n = 0
          THEN [IdleIngest EXCEPT !.pc = "returned", !.kind = "add_document",
                                  !.collection = dbCollection, !.status = "warning"]
          ELSE [IdleIngest EXCEPT !.pc = "running", !.kind = "add_document",
                                  !.collection = dbCollection, !.n = n]]
    /\ UNCHANGED <<callVars, sessionVars, chatVars, storeVars, clearLog, histVars, chunkVars>>

\* One turn of the loop of add_document: the embedding is there, the chunk is
\* inserted through the pipeline's own handle; a handle of a dropped
\* collection raises, and the except clause reports zero chunks.
add_document_insert(k) ==
    /\ ingest[k].pc = "running"
    /\ ingest[k].kind = "add_document"
    /\ IF ingest[k].collection = dbCollection
       THEN LET records == Append(dbRecords, <<k, ingest[k].i>>)
                added   == ingest[k].chunks_added + 1
                last    == ingest[k].i + 1 = ingest[k].n
            IN  /\ dbRecords' = records
                /\ ingest' = [ingest EXCEPT ![k] =
                      [@ EXCEPT !.i = @ + 1,
                                !.chunks_added = added,
                                !.pc = IF last THEN "returned" ELSE "running",
                                !.status = IF last THEN "success" ELSE "none",
                                !.stored_at_return =
                                    IF last THEN Cardinality(StoredOf(records, k)) ELSE 0]]
       ELSE /\ dbRecords' = dbRecords
            /\ ingest' = [ingest EXCEPT ![k] =
                  [@ EXCEPT !.pc = "returned", !.status = "error", !.chunks_added = 0,
                            !.stored_at_return = Cardinality(StoredOf(dbRecords, k))]]
    /\ UNCHANGED <<callVars, sessionVars, chatVars, dbCollection, handle, clearLog, histVars, chunkVars>>

\* FileIngestionService.process_uploaded_files from the call of
\* _store_chunks_in_vectordb on: n chunks were created (chunks_created),
\* the first batch is being embedded.
_store_chunks_in_vectordb(k, n) ==
    /\ ingest[k].pc = "idle"
    /\ StartsInOrder(k)
    /\ ingest' = [ingest EXCEPT ![k] =
          [IdleIngest EXCEPT !.pc = "running", !.kind = "store_chunks",
                             !.n = n, !.chunks_added = n]]
    /\ UNCHANGED <<callVars, sessionVars, chatVars, storeVars, clearLog, histVars, chunkVars>>

\* One turn of the loop of _store_chunks_in_vectordb: the embeddings of the
\* batch are there, add_documents inserts the batch through
\* self.vectorstore_service.collection as it is now; a raise leaves the loop
\* and process_uploaded_files reports "Error: ...".
store_batch(k) ==
    /\ ingest[k].pc = "running"
    /\ ingest[k].kind = "store_chunks"
    /\ IF handle["ingestion"] = dbCollection
       THEN LET records == dbRecords \o BatchRecords(k, ingest[k].i, ingest[k].n)
                next    == ingest[k].i + embedding_batch_size
                last    == next >= ingest[k].n
            IN  /\ dbRecords' = records
                /\ ingest' = [ingest EXCEPT ![k] =
                      [@ EXCEPT !.i = Min(next, ingest[k].n),
                                !.pc = IF last THEN "returned" ELSE "running",
                                !.status = IF last THEN "success" ELSE "none",
                                !.stored_at_return =
                                    IF last THEN Cardinality(StoredOf(records, k)) ELSE 0]]
       ELSE /\ dbRecords' = dbRecords
            /\ ingest' = [ingest EXCEPT ![k] =
                  [@ EXCEPT !.pc = "returned", !.status = "error",
                            !.stored_at_return = Cardinality(StoredOf(dbRecords, k))]]
    /\ UNCHANGED <<callVars, sessionVars, chatVars, dbCollection, handle, clearLog, histVars, chunkVars>>

\* Ingest calls that have inserted something and have more to insert
MidIngest == {k \in IngestIds : ingest[k].pc = "running" /\ ingest[k].i > 0}

\* VectorStoreService.clear_collection of a long-lived instance (the admin
\* router's and the code assistant router's pipeline, the ingestion service):
\* count(), delete_collection, get_or_create_collection.  On a handle of a
\* dropped collection count() raises and the call returns 0.
clear_collection(inst) ==
    /\ Len(clearLog) < MaxClears
    /\ IF handle[inst] = dbCollection
       THEN /\ dbCollection' = dbCollection + 1
            /\ dbRecords' = <<>>
            /\ handle' = [handle EXCEPT ![inst] = dbCollection + 1]
            /\ clearLog' = Append(clearLog, [inst |-> inst, dropped |-> TRUE,
                                             count |-> Len(dbRecords), during |-> MidIngest])
       ELSE /\ UNCHANGED storeVars
            /\ clearLog' = Append(clearLog, [inst |-> inst, dropped |-> FALSE,
                                             count |-> 0, during |-> MidIngest])
    /\ UNCHANGED <<callVars, sessionVars, chatVars, ingest, histVars, chunkVars>>

InitStore ==
    /\ InitSessionsIdle
    /\ InitChatIdle
    /\ InitStoreIdle
    /\ ingest = [k \in IngestIds |-> IdleIngest]
    /\ clearLog = <<>>
    /\ InitHistIdle
    /\ InitChunkIdle
    /\ InitCallIdle

NextStore ==
    \/ \E k \in IngestIds, n \in 0..MaxChunks : add_document(k, n)
    \/ \E k \in IngestIds : add_document_insert(k)
    \/ \E k \in IngestIds, n \in {embedding_batch_size, embedding_batch_size + 1} :
          _store_chunks_in_vectordb(k, n)
    \/ \E k \in IngestIds : store_batch(k)
    \/ \E inst \in {"admin", "code_assistant", "ingestion"} : clear_collection(inst)

SpecStore == InitStore /\ [][NextStore]_vars

\* C5: no clear_collection drops the collection while an ingest call is
\* between its first and its last insertion, and an ingest call that returns
\* success with n chunks added has all n chunks in the collection at the
\* moment it returns.
C5_MutationsSerialized ==
    /\ \A j \in 1..Len(clearLog) : clearLog[j].dropped => clearLog[j].during = {}
    /\ \A k \in IngestIds :
          (ingest[k].pc = "returned" /\ ingest[k].status = "success")
             => /\ ingest[k].chunks_added = ingest[k].n
                /\ ingest[k].stored_at_return = ingest[k].n

(***************************************************************************)
(* services/chunking_service.py                                             *)
(***************************************************************************)
\* Last position of the match of  c\s*\n  that starts at p, 0 when it does not
\* match there: \s* is greedy, so the match ends at the last newline of the
\* whitespace run that follows p.
MatchEnd(s, p, c) ==
    IF s[p] # c THEN 0
    ELSE LET nl == {q \in (p + 1)..Len(s) : s[q] = "\n" /\ AllSpace(s, p + 1, q)}
         IN  IF nl = {} THEN 0 ELSE SetMax(nl)

\* re.split(c + r'\s*\n', s): the pieces between the leftmost matches
RECURSIVE re_split(_, _)
re_split(s, c) ==
    LET starts == {p \in 1..Len(s) : MatchEnd(s, p, c) # 0}
    IN  IF starts = {} THEN <<s>>
        ELSE <<SubSeq(s, 1, SetMin(starts) - 1)>>
                 \o re_split(From(s, MatchEnd(s, SetMin(starts), c) + 1), c)

\* re.match of  kw\s+\w+.*?term  on s: the keyword, whitespace, a name, and
\* the terminator somewhere after the first character of the name
MatchSignature(s, kw, term) ==
    /\ StartsWithAt(s, 1, kw)
    /\ \E p \in (Len(kw) + 1)..Len(s) :
          /\ AllSpace(s, Len(kw) + 1, p)
          /\ p + 1 <= Len(s)
          /\ s[p + 1] \in WordChars
          /\ \E k \in (p + 2)..Len(s) : StartsWithAt(s, k, term)

\* re.match of  kw\s+.*?term  on s
MatchModifier(s, kw, term) ==
    /\ StartsWithAt(s, 1, kw)
    /\ Len(s) > Len(kw)
    /\ IsSpace(s[Len(kw) + 1])
    /\ \E k \in (Len(kw) + 2)..Len(s) : StartsWithAt(s, k, term)

\* re.match of  async\s+def\s+\w+.*?:  on s
MatchAsyncDef(s) ==
    /\ StartsWithAt(s, 1, <<"a", "s", "y", "n", "c">>)
    /\ \E p \in 6..Len(s) :
          /\ AllSpace(s, 6, p)
          /\ MatchSignature(From(s, p + 1), <<"d", "e", "f">>, <<":">>)

\* re.match of  const\s+\w+\s*=\s*.*?=>  on s
MatchConstArrow(s) ==
    /\ StartsWithAt(s, 1, <<"c", "o", "n", "s", "t">>)
    /\ \E p \in 6..Len(s), q \in 7..Len(s), r \in 7..Len(s) :
          /\ AllSpace(s, 6, p)
          /\ p + 1 <= q
          /\ \A j \in (p + 1)..q : s[j] \in WordChars
          /\ q <= r
          /\ AllSpace(s, q + 1, r)
          /\ r + 1 <= Len(s)
          /\ s[r + 1] = "="
          /\ \E k \in (r + 2)..Len(s) : StartsWithAt(s, k, <<"=", ">">>)

\* _chunk_with_regex.patterns: the languages that have patterns
pattern_languages == {"python", "javascript", "java"}

\* any(re.match(pattern, s) for pattern in patterns[language]); s is stripped,
\* so the leading \s* of the java patterns matches nothing
matches_pattern(language, s) ==
    IF language = "python"
    THEN \/ MatchSignature(s, <<"d", "e", "f">>, <<":">>)
         \/ MatchSignature(s, <<"c", "l", "a", "s", "s">>, <<":">>)
         \/ MatchAsyncDef(s)
    ELSE IF language = "javascript"
    THEN \/ MatchSignature(s, <<"f", "u", "n", "c", "t", "i", "o", "n">>, <<"{">>)
         \/ MatchConstArrow(s)
         \/ MatchSignature(s, <<"c", "l", "a", "s", "s">>, <<"{">>)
    ELSE IF language = "java"
    THEN \/ MatchModifier(s, <<"p", "u", "b", "l", "i", "c">>, <<"{">>)
         \/ MatchModifier(s, <<"p", "r", "i", "v", "a", "t", "e">>, <<"{">>)
         \/ MatchModifier(s, <<"p", "r", "o", "t", "e", "c", "t", "e", "d">>, <<"{">>)
         \/ MatchSignature(s, <<"c", "l", "a", "s", "s">>, <<"{">>)
    ELSE FALSE

\* re.match(r'^#{1,6}\s+', line)
is_header(line) ==
    \E k \in 1..6 :
        /\ k + 1 <= Len(line)
        /\ \A j \in 1..k : line[j] = "#"
        /\ IsSpace(line[k + 1])

\* core/constants.py LANGUAGE_MAPPING.get(file_type, 'text'), for the file types
\* chunk_document hands to chunk_code
LANGUAGE_MAPPING(file_type) ==
    CASE file_type = ".py" -> "python"
      [] file_type \in {".js", ".jsx"} -> "javascript"
      [] file_type \in {".ts", ".tsx"} -> "typescript"
      [] file_type = ".java" -> "java"
      [] file_type = ".cpp" -> "cpp"
      [] file_type \in {".c", ".h"} -> "c"
      [] file_type = ".go" -> "go"
      [] file_type = ".rs" -> "rust"
      [] file_type = ".rb" -> "ruby"
      [] file_type = ".php" -> "php"
      [] file_type = ".swift" -> "swift"
      [] file_type = ".kt" -> "kotlin"
      [] file_type = ".scala" -> "scala"
      [] OTHER -> "text"

\* A chunk: its content and the keys the strategies put into its metadata
\* (0 stands for a key the strategy does not set; the keys copied from the
\* input metadata are the same for every chunk and left out).
Chunk(text, chunk_type, start_line, end_line, line_count, paragraph_count, statement_index) ==
    [content |-> text, chunk_type |-> chunk_type, start_line |-> start_line,
     end_line |-> end_line, line_count |-> line_count,
     paragraph_count |-> paragraph_count, statement_index |-> statement_index,
     statement_type |-> ""]

NL == <<"\n">>

\* LineChunk with the 0-based indices of the loop as line numbers
LineChunkZeroBased(current_chunk, start_line, end_line) ==
    Chunk(join(current_chunk, NL), "line_based", start_line - 1, end_line - 1,
          Len(current_chunk), 0, 0)

\* The chunk _chunk_by_lines makes of current_chunk
LineChunk(current_chunk, start_line, end_line) ==
    Chunk(join(current_chunk, NL), "line_based", start_line, end_line,
          Len(current_chunk), 0, 0)

\* The for loop of _chunk_by_lines from index i (0-based) on, and the final chunk
RECURSIVE lines_loop(_, _, _, _, _, _)
lines_loop(lines, i, current_chunk, current_size, out, chunk_size) ==
    IF i >= Len(lines)
    THEN IF current_chunk # <<>>
         THEN Append(out, LineChunk(current_chunk, Len(lines) - Len(current_chunk) + 1,
                                    Len(lines)))
         ELSE out
    ELSE LET line      == lines[i + 1]
             line_size == word_count(line)
             flush     == current_size + line_size > chunk_size /\ current_chunk # <<>>
         IN  lines_loop(lines, i + 1,
                        Append(IF flush THEN <<>> ELSE current_chunk, line),
                        (IF flush THEN 0 ELSE current_size) + line_size,
                        IF flush
                        THEN Append(out, LineChunk(current_chunk,
                                                   i - Len(current_chunk) + 1, i))
                        ELSE out,
                        chunk_size)

_chunk_by_lines(text, chunk_size) ==
    lines_loop(split(text, "\n"), 0, <<>>, 0, <<>>, chunk_size)

\* lines[first:last] of Python (0-based, last excluded)
Slice(lines, first, last) == SubSeq(lines, first + 1, last)

\* The list boundaries of _chunk_with_regex / header_indices of _chunk_markdown,
\* 0-based and ascending
RECURSIVE Ascending(_)
Ascending(S) ==
    IF S = {} THEN <<>> ELSE <<SetMin(S)>> \o Ascending(S \ {SetMin(S)})

\* One chunk per boundary: from the boundary to the line before the next one
BoundaryChunks(lines, boundaries, chunk_type) ==
    [b \in 1..Len(boundaries) |->
        LET start == boundaries[b]
            end   == IF b + 1 <= Len(boundaries) THEN boundaries[b + 1] ELSE Len(lines)
        IN  Chunk(join(Slice(lines, start, end), NL), chunk_type, start + 1, end, 0, 0, 0)]

_chunk_with_regex(text, language) ==
    LET lines == split(text, "\n")
        boundaries == Ascending({i \in 0..(Len(lines) - 1) :
                                    matches_pattern(language, strip(lines[i + 1]))})
    IN  IF language \notin pattern_languages THEN <<>>
        ELSE IF boundaries = <<>> THEN <<>>
        ELSE BoundaryChunks(lines, boundaries, "regex_function")

\* The loop of _chunk_with_ast that collects the lines outside the chunks
RECURSIVE global_loop(_, _, _, _)
global_loop(lines, found, current_line, global_lines) ==
    IF found = <<>>
    THEN IF current_line < Len(lines)
         THEN global_lines \o Slice(lines, current_line, Len(lines))
         ELSE global_lines
    ELSE LET start == found[1].start_line - 1
         IN  global_loop(lines, Tail(found), found[1].end_line,
                         IF current_line < start
                         THEN global_lines \o Slice(lines, current_line, start)
                         ELSE global_lines)

\* _chunk_with_ast: outcome is what tree-sitter did: the import failed, the
\* parse raised, or it gave the definitions among the children of the root
\* as ranges of 0-based lines [start |-> , end |-> ], in document order.
_chunk_with_ast(text, outcome) ==
    IF outcome.kind # "parsed" THEN <<>>
    ELSE LET lines == split(text, "\n")
             found == [j \in 1..Len(outcome.nodes) |->
                         Chunk(join(Slice(lines, outcome.nodes[j].start,
                                          outcome.nodes[j].end + 1), NL),
                               "ast_function", outcome.nodes[j].start + 1,
                               outcome.nodes[j].end + 1, 0, 0, 0)]
             global_content == strip(join(global_loop(lines, found, 0, <<>>), NL))
         IN  IF found # <<>> /\ global_content # <<>>
             THEN <<Chunk(global_content, "ast_global", 1, Len(lines), 0, 0, 0)>> \o found
             ELSE found

code_file_types ==
    {".py", ".js", ".ts", ".jsx", ".tsx", ".java", ".cpp", ".c", ".h",
     ".go", ".rs", ".rb", ".php", ".swift", ".kt", ".scala"}

config_file_types == {".json", ".yaml", ".yml", ".toml", ".ini", ".xml", ".properties"}

text_file_types == {".md", ".txt", ".rst"}

web_file_types == {".html", ".css", ".scss", ".sass"}

\* What one tier of chunk_code did: raised says that the call left through an
\* exception (no tier does: _chunk_with_ast catches everything itself).
Tier(name, result) == [tier |-> name, raised |-> FALSE, result |-> result]

\* The tier failed in the sense of chunk_code: it raised or gave no chunks
Failed(t) == t.raised \/ t.result = <<>>

\* chunk_code that returns the pattern tier's list whatever it holds
chunk_code_no_line_tier(text, file_type, chunk_size, outcome) ==
    LET ast   == Tier("ast", _chunk_with_ast(text, outcome))
        regex == Tier("regex", _chunk_with_regex(text, LANGUAGE_MAPPING(file_type)))
    IN  IF ~Failed(ast) THEN [chunks |-> ast.result, trace |-> <<ast>>]
        ELSE [chunks |-> regex.result, trace |-> <<ast, regex>>]

\* chunk_code: the list it returns and the tiers it went through
chunk_code(text, file_type, chunk_size, outcome) ==
    LET ast   == Tier("ast", _chunk_with_ast(text, outcome))
        regex == Tier("regex", _chunk_with_regex(text, LANGUAGE_MAPPING(file_type)))
        lines == Tier("lines", _chunk_by_lines(text, chunk_size))
    IN  IF ~Failed(ast) THEN [chunks |-> ast.result, trace |-> <<ast>>]
        ELSE IF ~Failed(regex) THEN [chunks |-> regex.result, trace |-> <<ast, regex>>]
        ELSE [chunks |-> lines.result, trace |-> <<ast, regex, lines>>]

config_single_chunk_limit == 2000   \* chunk_config: len(content) < 2000
fixed_chunk_size == 800             \* chunk_config, chunk_web: chunk_size=800

chunk_config(text) ==
    IF Len(text) < config_single_chunk_limit
    THEN <<Chunk(text, "config_complete", 1, Len(split(text, "\n")), 0, 0, 0)>>
    ELSE _chunk_by_lines(text, fixed_chunk_size)

overlap_size == 100                 \* ChunkingService.__init__

\* The chunk _chunk_by_paragraphs makes of current_chunk
ParagraphChunk(current_chunk) ==
    Chunk(join(current_chunk, <<"\n", "\n">>), "paragraph_group", 0, 0, 0,
          Len(current_chunk), 0)

\* The for loop of _chunk_by_paragraphs from paragraph i (0-based) on, and the
\* final chunk
RECURSIVE paragraphs_loop(_, _, _, _, _, _)
paragraphs_loop(paragraphs, i, current_chunk, current_size, out, chunk_size) ==
    IF i >= Len(paragraphs)
    THEN IF current_chunk # <<>> THEN Append(out, ParagraphChunk(current_chunk)) ELSE out
    ELSE LET para      == paragraphs[i + 1]
             para_size == word_count(para)
             flush     == current_size + para_size > chunk_size /\ current_chunk # <<>>
             overlap   == overlap_size > 0 /\ current_chunk # <<>>
             kept      == IF ~flush THEN current_chunk
                          ELSE IF overlap THEN <<current_chunk[Len(current_chunk)]>>
                          ELSE <<>>
             kept_size == IF ~flush THEN current_size
                          ELSE IF overlap THEN word_count(kept[1])
                          ELSE 0
         IN  paragraphs_loop(paragraphs, i + 1, Append(kept, para), kept_size + para_size,
                             IF flush THEN Append(out, ParagraphChunk(current_chunk)) ELSE out,
                             chunk_size)

_chunk_by_paragraphs(text, chunk_size) ==
    paragraphs_loop(re_split(text, "\n"), 0, <<>>, 0, <<>>, chunk_size)

_chunk_markdown(text, chunk_size) ==
    LET lines == split(text, "\n")
        header_indices == Ascending({i \in 0..(Len(lines) - 1) : is_header(lines[i + 1])})
    IN  IF header_indices = <<>> THEN _chunk_by_paragraphs(text, chunk_size)
        ELSE BoundaryChunks(lines, header_indices, "markdown_section")

chunk_document_text(text, file_type, chunk_size) ==
    IF file_type = ".md" THEN _chunk_markdown(text, chunk_size)
    ELSE _chunk_by_paragraphs(text, chunk_size)

\* The first position from i on that holds no white space (\s* of the re module)
SkipSpace(s, i) ==
    SetMin({j \in i..(Len(s) + 1) : j = Len(s) + 1 \/ ~IsSpace(s[j])})

\* re.match(r'^\s*first\s+second', s, re.IGNORECASE), and without \s+second
\* when second is empty
MatchKeywords(s, first, second) ==
    LET low  == lower(s)
        at   == SkipSpace(low, 1)
        gap  == at + Len(first)
        next == SkipSpace(low, gap)
    IN  /\ StartsWithAt(low, at, first)
        /\ second # <<>> => (next > gap /\ StartsWithAt(low, next, second))

\* The statement type chunk_sql detects
sql_statement_type(statement) ==
    IF MatchKeywords(statement, <<"c", "r", "e", "a", "t", "e">>, <<"t", "a", "b", "l", "e">>)
    THEN "CREATE_TABLE"
    ELSE IF MatchKeywords(statement, <<"c", "r", "e", "a", "t", "e">>, <<"i", "n", "d", "e", "x">>)
    THEN "CREATE_INDEX"
    ELSE IF MatchKeywords(statement, <<"i", "n", "s", "e", "r", "t">>, <<>>)
    THEN "INSERT"
    ELSE IF MatchKeywords(statement, <<"s", "e", "l", "e", "c", "t">>, <<>>)
    THEN "SELECT"
    ELSE "UNKNOWN"

\* The chunk chunk_sql makes of the i-th piece (from 0) of the split
SqlChunk(statement, i) ==
    [Chunk(statement, "sql_statement", 0, 0, 0, 0, i + 1)
        EXCEPT !.statement_type = sql_statement_type(statement)]

\* chunk_sql: the statements that are not blank, each with its position among
\* all the pieces of the split
chunk_sql(text) ==
    LET statements == re_split(text, ";")
        kept == Ascending({i \in 0..(Len(statements) - 1) : strip(statements[i + 1]) # <<>>})
    IN  [j \in 1..Len(kept) |-> SqlChunk(strip(statements[kept[j] + 1]), kept[j])]

chunk_web(text) == _chunk_by_lines(text, fixed_chunk_size)

chunk_generic(text, chunk_size) == _chunk_by_lines(text, chunk_size)

\* chunk_document: the strategy of the file type; what it raises (the class
\* has no method chunk_csv, so that branch raises AttributeError) is caught
\* and answered with chunk_generic.
chunk_document(text, file_type, chunk_size, outcome) ==
    LET strategy ==
          IF file_type \in code_file_types
          THEN [name |-> "chunk_code", raised |-> FALSE,
                result |-> chunk_code(text, file_type, chunk_size, outcome).chunks]
          ELSE IF file_type \in config_file_types
          THEN [name |-> "chunk_config", raised |-> FALSE, result |-> chunk_config(text)]
          ELSE IF file_type \in text_file_types
          THEN [name |-> "chunk_document_text", raised |-> FALSE,
                result |-> chunk_document_text(text, file_type, chunk_size)]
          ELSE IF file_type = ".sql"
          THEN [name |-> "chunk_sql", raised |-> FALSE, result |-> chunk_sql(text)]
          ELSE IF file_type \in web_file_types
          THEN [name |-> "chunk_web", raised |-> FALSE, result |-> chunk_web(text)]
          ELSE IF file_type = ".csv"
          THEN [name |-> "chunk_csv", raised |-> TRUE, result |-> <<>>]
          ELSE [name |-> "chunk_generic", raised |-> FALSE,
                result |-> chunk_generic(text, chunk_size)]
    IN  IF strategy.raised
        THEN [chunks |-> chunk_generic(text, chunk_size), raised |-> FALSE,
              trace |-> <<strategy, [name |-> "chunk_generic", raised |-> FALSE,
                                     result |-> chunk_generic(text, chunk_size)]>>]
        ELSE [chunks |-> strategy.result, raised |-> FALSE, trace |-> <<strategy>>]

(***************************************************************************)
(* Specification of the chunking service: a text, a file type and a budget  *)
(* are chosen, then one of chunk_document, chunk_code and _chunk_by_lines    *)
(* is called on them.  The texts are made of a few kinds of lines; the      *)
(* budget (ChunkingService.max_chunk_size, 1000 in __init__) is drawn from  *)
(* small values as well, so that a text of a few words exceeds it.          *)
(***************************************************************************)
MaxLines == 3        \* lines of a text at most
MaxNodes == 2        \* definitions tree-sitter reports at most

LineKinds ==
    { <<>>,                                    \* a blank line
      <<" ">>,                                 \* a line of whitespace
      <<"x">>,                                 \* one word
      <<"x", " ", "y">>,                       \* two words
      <<"d", "e", "f", " ", "f", ":">>,        \* a Python signature
      <<"#", " ", "h">>,                       \* a markdown header
      <<"x", ";">>,                            \* the end of an SQL statement
      <<";">> }                                \* an empty SQL statement

Budgets == {1, 2, 1000}

FileTypes == {".py", ".go", ".json", ".md", ".txt", ".sql", ".html", ".csv", ".bin"}

RECURSIVE LineLists(_)
LineLists(n) ==
    IF n = 0 THEN {<<>>}
    ELSE LET shorter == LineLists(n - 1)
         IN  shorter \cup {Append(l, k) : l \in {x \in shorter : Len(x) = n - 1}, k \in LineKinds}

Texts == {join(l, NL) : l \in LineLists(MaxLines) \ {<<>>}}

\* A definition node covers whole tokens: its first and its last line are
\* not blank.
NodeRanges(lines) ==
    {[start |-> a, end |-> b] : a \in 0..(Len(lines) - 1), b \in 0..(Len(lines) - 1)}

IsNode(lines, nd) ==
    /\ nd.start <= nd.end
    /\ strip(lines[nd.start + 1]) # <<>>
    /\ strip(lines[nd.end + 1]) # <<>>

RECURSIVE NodeLists(_, _)
NodeLists(lines, n) ==
    IF n = 0 THEN {<<>>}
    ELSE LET shorter == NodeLists(lines, n - 1)
         IN  shorter \cup
             UNION { {Append(l, nd) : nd \in {y \in NodeRanges(lines) :
                                                /\ IsNode(lines, y)
                                                /\ \A j \in 1..Len(l) : l[j].end < y.start}}
                     : l \in {x \in shorter : Len(x) = n - 1} }

NotParsed == [kind |-> "not_called", nodes |-> <<>>]

\* What the tree-sitter tier can meet on a text
AstOutcomes(text) ==
    {[kind |-> "import_error", nodes |-> <<>>], [kind |-> "error", nodes |-> <<>>]}
    \cup {[kind |-> "parsed", nodes |-> l] : l \in NodeLists(split(text, "\n"), MaxNodes)}

chunker_chunk_document ==
    /\ phase = "input"
    /\ \E outcome \in (IF metadata.file_type \in code_file_types
                       THEN AstOutcomes(content) ELSE {NotParsed}) :
          LET r == chunk_document(content, metadata.file_type, max_chunk_size, outcome)
          IN  /\ astOutcome' = outcome
              /\ chunks' = r.chunks
              /\ trace' = r.trace
    /\ phase' = "chunk_document"
    /\ UNCHANGED <<callVars, sessionVars, chatVars, storeVars, ingestVars, histVars,
                   content, metadata, max_chunk_size>>

\* chunk_code is called for the code file types only
chunker_chunk_code ==
    /\ phase = "input"
    /\ metadata.file_type \in code_file_types
    /\ \E outcome \in AstOutcomes(content) :
          LET r == chunk_code(content, metadata.file_type, max_chunk_size, outcome)
          IN  /\ astOutcome' = outcome
              /\ chunks' = r.chunks
              /\ trace' = r.trace
    /\ phase' = "chunk_code"
    /\ UNCHANGED <<callVars, sessionVars, chatVars, storeVars, ingestVars, histVars,
                   content, metadata, max_chunk_size>>

\* _chunk_by_lines(content, metadata, chunk_size): chunk_size is given or None
chunker_chunk_by_lines(given, chunk_size) ==
    /\ phase = "input"
    /\ LET size == IF given THEN chunk_size ELSE max_chunk_size
       IN  /\ chunks' = _chunk_by_lines(content, size)
           /\ trace' = <<[name |-> "_chunk_by_lines", chunk_size |-> size]>>
    /\ phase' = "_chunk_by_lines"
    /\ UNCHANGED <<callVars, sessionVars, chatVars, storeVars, ingestVars, histVars,
                   content, metadata, max_chunk_size, astOutcome>>

InitChunk ==
    /\ InitSessionsIdle
    /\ InitChatIdle
    /\ InitStoreIdle
    /\ InitIngestIdle
    /\ InitHistIdle
    /\ content \in Texts
    /\ metadata \in {[file_type |-> t] : t \in FileTypes}
    /\ max_chunk_size \in Budgets
    /\ astOutcome = NotParsed
    /\ chunks = <<>>
    /\ trace = <<>>
    /\ phase = "input"
    /\ InitCallIdle

NextChunk ==
    \/ chunker_chunk_document
    \/ chunker_chunk_code
    \/ \E given \in BOOLEAN, chunk_size \in Budgets : chunker_chunk_by_lines(given, chunk_size)

SpecChunk == InitChunk /\ [][NextChunk]_vars

(***************************************************************************)
(* Properties of the chunking service (specification SpecChunk)             *)
(***************************************************************************)
\* C8: chunk_code tries the structural tier first; the pattern tier is tried
\* if and only if the structural tier raised or returned no chunks; the
\* line-based tier is used if and only if the pattern tier raised or returned
\* no chunks as well; the list of the first tier that returns a non-empty
\* list is returned unchanged; a non-empty input gives at least one chunk.
C8_FallbackCascade ==
    phase = "chunk_code" =>
        LET n == Len(trace)
        IN  /\ n \in 1..3
            /\ trace[1].tier = "ast"
            /\ trace[1].result = _chunk_with_ast(content, astOutcome)
            /\ (n >= 2) <=> Failed(trace[1])
            /\ n >= 2 =>
                  /\ trace[2].tier = "regex"
                  /\ trace[2].result =
                        _chunk_with_regex(content, LANGUAGE_MAPPING(metadata.file_type))
            /\ (n = 3) <=> (n >= 2 /\ Failed(trace[2]))
            /\ n = 3 =>
                  /\ trace[3].tier = "lines"
                  /\ trace[3].result = _chunk_by_lines(content, max_chunk_size)
            /\ \A j \in 1..n :
                  (~Failed(trace[j]) /\ \A i \in 1..(j - 1) : Failed(trace[i]))
                     => chunks = trace[j].result
            /\ content # <<>> => Len(chunks) >= 1

\* A non-empty text went through all three tiers: tree-sitter parsed it and
\* found no definition, the language has no patterns or no line matches
C8_Witness ==
    /\ phase = "chunk_code"
    /\ content # <<>>
    /\ astOutcome.kind = "parsed"
    /\ Len(trace) = 3
    /\ Len(chunks) >= 1

\* C9: for every non-empty text and every file type chunk_document returns at
\* least one chunk, and a strategy that raises (the missing chunk_csv) is
\* answered with the generic line-based chunks.
C9_ChunkingTotality ==
    (phase = "chunk_document" /\ content # <<>>) =>
        /\ Len(chunks) >= 1
        /\ trace[1].raised =>
              /\ Len(trace) = 2
              /\ trace[2].name = "chunk_generic"
              /\ chunks = _chunk_by_lines(content, max_chunk_size)

\* The chunk list is the output of the line-based tier
LineBased == phase # "input" /\ chunks # <<>> /\ chunks[1].chunk_type = "line_based"

\* C10: the ranges of the chunks of _chunk_by_lines, in output order, are
\* 1-based and inclusive, start at line 1, end at the last line and each one
\* starts right after the one before, so every line of the input is in exactly
\* one chunk; line_count is end_line - start_line + 1 and the content is those
\* lines joined by newlines.
C10_LineTierCoverage ==
    (phase = "_chunk_by_lines" \/ LineBased) =>
        LET lines == split(content, "\n")
            n == Len(chunks)
        IN  /\ n >= 1
            /\ chunks[1].start_line = 1
            /\ chunks[n].end_line = Len(lines)
            /\ \A j \in 1..n :
                  /\ 1 <= chunks[j].start_line
                  /\ chunks[j].start_line <= chunks[j].end_line
                  /\ chunks[j].line_count = chunks[j].end_line - chunks[j].start_line + 1
                  /\ chunks[j].content =
                        join(SubSeq(lines, chunks[j].start_line, chunks[j].end_line), NL)
            /\ \A j \in 1..(n - 1) : chunks[j + 1].start_line = chunks[j].end_line + 1
            /\ \A i \in 1..Len(lines) :
                  Cardinality({j \in 1..n : chunks[j].start_line <= i
                                            /\ i <= chunks[j].end_line}) = 1

\* The budget split the text, and one of the chunks has more than one line
C10_Witness ==
    /\ phase = "_chunk_by_lines"
    /\ Len(chunks) >= 2
    /\ \E j \in 1..Len(chunks) : chunks[j].line_count >= 2

\* C11: every chunk the chunking service returns for a non-empty input has
\* non-empty content, whatever the strategy.
C11_ChunkContentNonEmpty ==
    (phase # "input" /\ content # <<>>) =>
        \A j \in 1..Len(chunks) : chunks[j].content # <<>>

\* The budget the returned chunks were made under
BudgetUsed ==
    IF phase = "_chunk_by_lines" THEN trace[1].chunk_size
    ELSE IF metadata.file_type \in web_file_types \cup config_file_types THEN fixed_chunk_size
    ELSE max_chunk_size

\* C12: a chunk of the line-based or of the paragraph strategy that is made
\* of two or more lines, or of two or more paragraphs (the overlap paragraph
\* included), has at most as many words as the budget; only a chunk of one
\* line or one paragraph may exceed it.
C12_SoftTokenBudget ==
    phase # "input" =>
        \A j \in 1..Len(chunks) :
            /\ (chunks[j].chunk_type = "line_based" /\ chunks[j].line_count >= 2)
                  => word_count(chunks[j].content) <= BudgetUsed
            /\ (chunks[j].chunk_type = "paragraph_group" /\ chunks[j].paragraph_count >= 2)
                  => word_count(chunks[j].content) <= BudgetUsed

(***************************************************************************)
(* Specification of the functions that compute a value from their          *)
(* arguments alone: call holds the function and the arguments of one call,  *)
(* returned what the call returned.                                         *)
(***************************************************************************)
MaxWords == 3        \* words of a message at most, next to the two fixed messages

RouterWords ==
    { <<"h", "i">>,
      <<"T", "h", "a", "n", "k", "s">>,
      <<"t", "h", "i", "s">>,
      <<"f", "i", "x">>,
      <<"b", "u", "g">>,
      <<"m", "y">>,
      <<"c", "o", "d", "e">>,
      <<"w", "e", "a", "t", "h", "e", "r">> }

RECURSIVE WordLists(_)
WordLists(n) ==
    IF n = 0 THEN {<<>>}
    ELSE LET shorter == WordLists(n - 1)
         IN  shorter \cup {Append(l, w) : l \in {x \in shorter : Len(x) = n - 1},
                                          w \in RouterWords}

MessageHi == <<"h", "i">>

MessageFixApi ==
    <<"h", "o", "w", " ", "d", "o", " ", "I", " ", "f", "i", "x", " ", "t", "h", "i", "s", " ", "b", "u", "g", " ", "i", "n", " ", "m", "y", " ", "A", "P", "I">>

\* request.message values: one to MaxWords words separated by one space
RouterMessages ==
    {join(l, <<" ">>) : l \in WordLists(MaxWords) \ {<<>>}} \cup {MessageHi, MessageFixApi}

RouterCalls == {[fn |-> "should_use_rag", done |-> FALSE, message |-> msg] : msg \in RouterMessages}

call_should_use_rag ==
    /\ call.fn = "should_use_rag"
    /\ ~call.done
    /\ returned' = should_use_rag(call.message)
    /\ call' = [call EXCEPT !.done = TRUE]
    /\ UNCHANGED <<sessionVars, chatVars, storeVars, ingestVars, histVars, chunkVars>>

(***************************************************************************)
(* services/rag_pipeline.py: _build_intelligent_prompt                      *)
(* The prompt is named by the builder of core/code_prompts.py that made it. *)
(***************************************************************************)
debugging_words ==
    { <<"e", "r", "r", "o", "r">>, <<"b", "u", "g">>, <<"i", "s", "s", "u", "e">>,
      <<"p", "r", "o", "b", "l", "e", "m">>, <<"f", "i", "x">>,
      <<"d", "e", "b", "u", "g">>, <<"e", "x", "c", "e", "p", "t", "i", "o", "n">>,
      <<"t", "r", "a", "c", "e", "b", "a", "c", "k">>, <<"f", "a", "i", "l", "s">>,
      <<"b", "r", "o", "k", "e", "n">>,
      <<"n", "o", "t", " ", "w", "o", "r", "k", "i", "n", "g">> }

architecture_words ==
    { <<"a", "r", "c", "h", "i", "t", "e", "c", "t", "u", "r", "e">>,
      <<"d", "e", "s", "i", "g", "n">>, <<"p", "a", "t", "t", "e", "r", "n">>,
      <<"s", "t", "r", "u", "c", "t", "u", "r", "e">>,
      <<"o", "r", "g", "a", "n", "i", "z", "e">>,
      <<"s", "c", "a", "l", "a", "b", "l", "e">>,
      <<"p", "e", "r", "f", "o", "r", "m", "a", "n", "c", "e">>,
      <<"o", "p", "t", "i", "m", "i", "z", "e">>,
      <<"r", "e", "f", "a", "c", "t", "o", "r">>, <<"i", "m", "p", "r", "o", "v", "e">> }

review_words ==
    { <<"r", "e", "v", "i", "e", "w">>, <<"c", "h", "e", "c", "k">>,
      <<"v", "a", "l", "i", "d", "a", "t", "e">>,
      <<"b", "e", "s", "t", " ", "p", "r", "a", "c", "t", "i", "c", "e">>,
      <<"c", "o", "d", "e", " ", "q", "u", "a", "l", "i", "t", "y">>,
      <<"s", "e", "c", "u", "r", "i", "t", "y">>,
      <<"v", "u", "l", "n", "e", "r", "a", "b", "i", "l", "i", "t", "y">>,
      <<"c", "l", "e", "a", "n", " ", "u", "p">> }

\* _build_intelligent_prompt that looks for the review words first
_build_intelligent_prompt_review_first(query) ==
    LET query_lower == lower(query)
    IN  IF \E word \in review_words : Occurs(word, query_lower)
        THEN "build_code_review_prompt"
        ELSE IF \E word \in debugging_words : Occurs(word, query_lower)
        THEN "build_debugging_prompt"
        ELSE IF \E word \in architecture_words : Occurs(word, query_lower)
        THEN "build_architecture_prompt"
        ELSE "build_code_generation_prompt"

_build_intelligent_prompt(query) ==
    LET query_lower == lower(query)
    IN  IF \E word \in debugging_words : Occurs(word, query_lower)
        THEN "build_debugging_prompt"
        ELSE IF \E word \in architecture_words : Occurs(word, query_lower)
        THEN "build_architecture_prompt"
        ELSE IF \E word \in review_words : Occurs(word, query_lower)
        THEN "build_code_review_prompt"
        ELSE "build_code_generation_prompt"

QueryWords ==
    { <<"f", "i", "x">>,
      <<"B", "u", "g">>,
      <<"d", "e", "s", "i", "g", "n">>,
      <<"i", "m", "p", "r", "o", "v", "e">>,
      <<"r", "e", "v", "i", "e", "w">>,
      <<"c", "h", "e", "c", "k">>,
      <<"w", "r", "i", "t", "e">>,
      <<"t", "e", "s", "t", "s">> }

RECURSIVE QueryWordLists(_)
QueryWordLists(n) ==
    IF n = 0 THEN {<<>>}
    ELSE LET shorter == QueryWordLists(n - 1)
         IN  shorter \cup {Append(l, w) : l \in {x \in shorter : Len(x) = n - 1},
                                          w \in QueryWords}

\* query values: one to MaxWords words separated by one space
Queries == {join(l, <<" ">>) : l \in QueryWordLists(MaxWords) \ {<<>>}}

PromptCalls ==
    {[fn |-> "_build_intelligent_prompt", done |-> FALSE, message |-> q] : q \in Queries}

call_build_intelligent_prompt ==
    /\ call.fn = "_build_intelligent_prompt"
    /\ ~call.done
    /\ returned' = _build_intelligent_prompt(call.message)
    /\ call' = [call EXCEPT !.done = TRUE]
    /\ UNCHANGED <<sessionVars, chatVars, storeVars, ingestVars, histVars, chunkVars>>

(***************************************************************************)
(* CSV files (rag_pipeline.py).  A content is described by its shape: a    *)
(* header line of header_width characters, then rows data rows of          *)
(* row_width characters each, "\n" between the lines, and tail "\n" at the *)
(* end; no line holds white space.  A line of a content is <<k, w>>: the   *)
(* first w characters of its k-th line, the header being line 0.           *)
(***************************************************************************)
csv_full_scan_limit == 10000000   \* len(content) > 10_000_000
csv_small_lines == 1000           \* len(lines) <= 1000
csv_sample_rows == 10             \* lines[1:11]
csv_sample_rows_large == 20       \* lines[1:21]
csv_preview_chars == 1000         \* content[:1000]
csv_sample_rows_very_large == 5   \* lines[1:6]
csv_assumed_row_width == 100      \* len(content) // 100

\* len(content)
csv_len(csv_content) ==
    csv_content.header_width + csv_content.rows * (csv_content.row_width + 1) + csv_content.tail

\* content.strip(): the newlines at the end go
csv_strip(csv_content) == [csv_content EXCEPT !.tail = 0]

\* the width of the k-th line of the content, and the index of its first character
csv_line_width(csv_content, k) ==
    IF k = 0 THEN csv_content.header_width
    ELSE IF k <= csv_content.rows THEN csv_content.row_width ELSE 0

csv_line_start(csv_content, k) ==
    IF k = 0 THEN 0
    ELSE IF k <= csv_content.rows
         THEN csv_content.header_width + 1 + (k - 1) * (csv_content.row_width + 1)
         ELSE csv_len(csv_content) - (csv_content.rows + csv_content.tail - k)

\* content[:n].split('\n'): a line is there when the newline before it is
\* among the first n characters, and holds what of it is among them
csv_split_prefix(csv_content, n) ==
    LET total == csv_content.rows + 1 + csv_content.tail
        count == IF total <= n + 1 THEN total ELSE n + 1
        last  == Cardinality({i \in 1..count : csv_line_start(csv_content, i - 1) <= n})
    IN  [i \in 1..last |->
            LET w    == csv_line_width(csv_content, i - 1)
                left == n - csv_line_start(csv_content, i - 1)
            IN  <<i - 1, IF w <= left THEN w ELSE left>>]

\* content.split('\n')
csv_split(csv_content) == csv_split_prefix(csv_content, csv_len(csv_content))

\* lines[1:m + 1] if len(lines) > 1 else []
csv_sample(lines, m) ==
    IF Len(lines) > 1
    THEN SubSeq(lines, 2, IF Len(lines) < m + 1 THEN Len(lines) ELSE m + 1)
    ELSE <<>>

_process_large_csv_content(csv_content) ==
    LET lines          == csv_split_prefix(csv_content, csv_preview_chars)
        header         == lines[1]
        estimated_rows == csv_len(csv_content) \div csv_assumed_row_width
        sample_lines   == csv_sample(lines, csv_sample_rows_very_large)
    IN  <<[chunk_type |-> "csv_header_very_large", header |-> header,
           estimated_rows |-> estimated_rows, file_size_bytes |-> csv_len(csv_content)]>>
        \o (IF sample_lines # <<>>
            THEN <<[chunk_type |-> "csv_sample_very_large", header |-> header,
                    sample_rows |-> sample_lines, sample_size |-> Len(sample_lines),
                    estimated_rows |-> estimated_rows]>>
            ELSE <<>>)

_process_csv_content(csv_content) ==
    IF csv_len(csv_content) > csv_full_scan_limit
    THEN _process_large_csv_content(csv_content)
    ELSE LET lines  == csv_split(csv_strip(csv_content))
             header == lines[1]
         IN  IF Len(lines) <= csv_small_lines
             THEN LET sample_rows == csv_sample(lines, csv_sample_rows)
                  IN  <<[chunk_type |-> "csv_header", header |-> header,
                         row_count |-> Len(lines) - 1]>>
                      \o (IF sample_rows # <<>>
                          THEN <<[chunk_type |-> "csv_sample", header |-> header,
                                  sample_rows |-> sample_rows,
                                  sample_size |-> Len(sample_rows)]>>
                          ELSE <<>>)
             ELSE LET sample_rows == csv_sample(lines, csv_sample_rows_large)
                  IN  <<[chunk_type |-> "csv_header_large", header |-> header,
                         row_count |-> Len(lines) - 1]>>
                      \o (IF sample_rows # <<>>
                          THEN <<[chunk_type |-> "csv_sample_large", header |-> header,
                                  sample_rows |-> sample_rows,
                                  sample_size |-> Len(sample_rows)]>>
                          ELSE <<>>)
                      \o <<[chunk_type |-> "csv_statistics", records |-> Len(lines) - 1]>>

\* contents around the row threshold, and contents around the size limit made
\* of many rows, of one long row, and of a header alone
CsvRowCounts == {0, 1, 9, 10, 11, 20, 21, 999, 1000, 1001}

CsvContents ==
    {[header_width |-> 3, rows |-> n, row_width |-> w, tail |-> t] :
        n \in CsvRowCounts, w \in {1, 3}, t \in {0, 1}}
    \cup {[header_width |-> h, rows |-> 99999, row_width |-> 99, tail |-> t] :
        h \in {99, 100, 101}, t \in {0, 1}}
    \cup {[header_width |-> 3, rows |-> 1, row_width |-> w, tail |-> t] :
        w \in {9999995, 9999996}, t \in {0, 1}}
    \cup {[header_width |-> h, rows |-> 0, row_width |-> 1, tail |-> 0] :
        h \in {9999999, 10000000, 10000001}}

CsvCalls ==
    {[fn |-> "_process_csv_content", done |-> FALSE, content |-> c] : c \in CsvContents}

call_process_csv_content ==
    /\ call.fn = "_process_csv_content"
    /\ ~call.done
    /\ returned' = _process_csv_content(call.content)
    /\ call' = [call EXCEPT !.done = TRUE]
    /\ UNCHANGED <<sessionVars, chatVars, storeVars, ingestVars, histVars, chunkVars>>

(***************************************************************************)
(* Calls of chunk_sql on SQL texts: up to MaxStatements statements, each    *)
(* followed by one of the separators.                                       *)
(***************************************************************************)
MaxStatements == 2

SqlStatements ==
    { <<"C", "R", "E", "A", "T", "E", " ", "T", "A", "B", "L", "E", " ", "t">>,
      <<"c", "r", "e", "a", "t", "e", " ", " ", "i", "n", "d", "e", "x", " ", "i">>,
      <<"I", "N", "S", "E", "R", "T", " ", "x">>,
      <<"S", "e", "l", "e", "c", "t", " ", "1">>,
      <<"C", "R", "E", "A", "T", "E", "T", "A", "B", "L", "E">>,
      <<"D", "R", "O", "P", " ", "t">>,
      <<>>,
      <<" ">> }

SqlSeparators == { <<";", "\n">>, <<";", " ", "\n">>, <<";">> }

RECURSIVE SqlTexts(_)
SqlTexts(n) ==
    IF n = 0 THEN {<<>>}
    ELSE LET shorter == SqlTexts(n - 1)
         IN  shorter \cup {t \o st \o sep : t \in shorter, st \in SqlStatements,
                                           sep \in SqlSeparators}

SqlCalls == {[fn |-> "chunk_sql", done |-> FALSE, text |-> t] : t \in SqlTexts(MaxStatements)}

call_chunk_sql ==
    /\ call.fn = "chunk_sql"
    /\ ~call.done
    /\ returned' = chunk_sql(call.text)
    /\ call' = [call EXCEPT !.done = TRUE]
    /\ UNCHANGED <<sessionVars, chatVars, storeVars, ingestVars, histVars, chunkVars>>

(***************************************************************************)
(* embedding_service.py: the hash-based embedding.  A text is a sequence   *)
(* of characters of HashAlphabet.                                           *)
(***************************************************************************)
default_dimension == 384     \* dimension: int = 384
floats_per_hash == 32        \* range(0, dimension, 32), min(32, dimension - i)
bytes_per_float == 4         \* hash_bytes[j*4:(j+1)*4]
digest_size == 32            \* len(hashlib.sha256(...).digest())

HashAlphabet == <<"a", "b", "_", "0", "1", "2", "3", "4", "5", "6", "7", "8", "9">>

Code(c) == CHOOSE k \in 1..Len(HashAlphabet) : HashAlphabet[k] = c

\* f"{i}" for i >= 0
RECURSIVE DecimalDigits(_)
DecimalDigits(i) ==
    IF i < 10 THEN <<HashAlphabet[4 + i]>>
    ELSE Append(DecimalDigits(i \div 10), HashAlphabet[4 + (i % 10)])

RECURSIVE WeightedSum(_, _)
WeightedSum(s, p) ==
    IF p > Len(s) THEN 0
    ELSE (Code(s[p]) * p * p + WeightedSum(s, p + 1)) % 65536

\* hashlib.sha256(hash_input.encode()).digest(): digest_size bytes that are
\* a function of the input alone and depend on each of its characters (the
\* bytes SHA-256 computes are other ones)
sha256_digest(hash_input) ==
    LET sum == WeightedSum(hash_input, 1)
    IN  [k \in 1..digest_size |-> (sum * k + 31 * k * k) % 256]

\* The component 0.0
ZeroComponent == <<>>

\* float_val of four bytes: (int.from_bytes(bytes, 'big') / (2**32 - 1)) * 2 - 1
\* is one to one on the four bytes, which stand for it here
FloatOfBytes(four_bytes) == four_bytes

\* The components _simple_hash_embedding appends for the hash of index i
hash_block(text, dimension, i) ==
    LET hash_bytes == sha256_digest(text \o <<"_">> \o DecimalDigits(i))
        count == IF floats_per_hash < dimension - i THEN floats_per_hash ELSE dimension - i
    IN  [n \in 1..count |->
            LET j == n - 1
            IN  IF j * bytes_per_float + 3 < Len(hash_bytes)
                THEN FloatOfBytes(SubSeq(hash_bytes, j * bytes_per_float + 1,
                                         (j + 1) * bytes_per_float))
                ELSE ZeroComponent]

RECURSIVE hash_blocks(_, _, _)
hash_blocks(text, dimension, i) ==
    IF i >= dimension THEN <<>>
    ELSE hash_block(text, dimension, i) \o hash_blocks(text, dimension, i + floats_per_hash)

\* _simple_hash_embedding without the else branch that appends 0.0
_simple_hash_embedding_no_padding(text, dimension) ==
    LET embeddings == hash_blocks(text, dimension, 0)
    IN  FirstN(SelectSeq(embeddings, LAMBDA x : x # ZeroComponent), dimension)

_simple_hash_embedding(text, dimension) ==
    FirstN(hash_blocks(text, dimension, 0), dimension)

MaxDimension == 66
MaxTextLen == 2

RECURSIVE HashTexts(_)
HashTexts(n) ==
    IF n = 0 THEN {<<>>}
    ELSE LET shorter == HashTexts(n - 1)
         IN  shorter \cup {Append(t, c) : t \in shorter, c \in {"a", "b"}}

HashCalls ==
    {[fn |-> "_simple_hash_embedding", done |-> FALSE, text |-> t, dimension |-> d,
      calls |-> 0] : t \in HashTexts(MaxTextLen), d \in 0..MaxDimension}

\* One call of _simple_hash_embedding; returned holds the vectors of the
\* calls made so far
call_simple_hash_embedding ==
    /\ call.fn = "_simple_hash_embedding"
    /\ ~call.done
    /\ returned' = (IF call.calls = 0 THEN <<>> ELSE returned)
                      \o <<_simple_hash_embedding(call.text, call.dimension)>>
    /\ call' = [call EXCEPT !.calls = @ + 1, !.done = (call.calls + 1 = 2)]
    /\ UNCHANGED <<sessionVars, chatVars, storeVars, ingestVars, histVars, chunkVars>>

(***************************************************************************)
(* embedding_service.py: embed_text and embed_texts.  The service is the   *)
(* record svc of embedding_provider, SENTENCE_TRANSFORMERS_AVAILABLE and   *)
(* local_model; env says which of the library calls fail during one        *)
(* embed_text: load_fails for SentenceTransformer(...), encode_fails for   *)
(* local_model.encode.  A function gives [raised, embedding, local_model]:  *)
(* whether it raised, what it returned, and local_model afterwards.         *)
(***************************************************************************)
None == "None"

Returns(embedding, local_model) ==
    [raised |-> FALSE, embedding |-> embedding, local_model |-> local_model]

Raises(local_model) ==
    [raised |-> TRUE, embedding |-> [source |-> "none", vector |-> <<>>],
     local_model |-> local_model]

HashEmbedding(text) ==
    [source |-> "hash", vector |-> _simple_hash_embedding(text, default_dimension)]

\* local_model.encode(text).tolist()
ModelEmbedding(text) == [source |-> "model", vector |-> <<text>>]

\* _init_local_model: local_model afterwards
_init_local_model(svc, env) ==
    IF ~svc.SENTENCE_TRANSFORMERS_AVAILABLE THEN None
    ELSE IF env.load_fails THEN None
    ELSE "model"

\* The try block of _embed_with_local
embed_with_local_try(text, svc, env) ==
    LET local_model ==
          IF svc.local_model = None /\ svc.SENTENCE_TRANSFORMERS_AVAILABLE
          THEN _init_local_model(svc, env)
          ELSE svc.local_model
    IN  IF local_model # None
        THEN IF env.encode_fails THEN Raises(local_model)
             ELSE Returns(ModelEmbedding(text), local_model)
        ELSE Returns(HashEmbedding(text), local_model)

\* _embed_with_local without its except clause
_embed_with_local_uncaught(text, svc, env) == embed_with_local_try(text, svc, env)

_embed_with_local(text, svc, env) ==
    LET tried == embed_with_local_try(text, svc, env)
    IN  IF tried.raised THEN Returns(HashEmbedding(text), tried.local_model) ELSE tried

\* _embed_with_groq: returns what _embed_with_local returns, raises what it raises
_embed_with_groq(text, svc, env) == _embed_with_local(text, svc, env)

embed_text(text, svc, env) ==
    LET primary == IF svc.embedding_provider = "groq"
                   THEN _embed_with_groq(text, svc, env)
                   ELSE _embed_with_local(text, svc, env)
        after   == [svc EXCEPT !.local_model = primary.local_model]
    IN  IF ~primary.raised THEN primary
        ELSE IF svc.embedding_provider = "groq"
             THEN _embed_with_local(text, after, env)
             ELSE _embed_with_groq(text, after, env)

MaxTexts == 2

EmbedTexts == HashTexts(1)

RECURSIVE EmbedTextLists(_)
EmbedTextLists(n) ==
    IF n = 0 THEN {<<>>}
    ELSE LET shorter == EmbedTextLists(n - 1)
         IN  shorter \cup {Append(l, t) : l \in shorter, t \in EmbedTexts}

Environments == [load_fails : BOOLEAN, encode_fails : BOOLEAN]

\* The services __init__ can leave: local_model is loaded only for the
\* provider "local", when the library is there and the load did not fail
Services ==
    {svc \in [embedding_provider : {"groq", "local"},
              SENTENCE_TRANSFORMERS_AVAILABLE : BOOLEAN,
              local_model : {None, "model"}] :
        svc.local_model = "model" =>
            (svc.embedding_provider = "local" /\ svc.SENTENCE_TRANSFORMERS_AVAILABLE)}

EmbedCalls ==
    {[fn |-> "embed_texts", done |-> FALSE, texts |-> l, svc |-> svc, embedded |-> 0,
      envs |-> <<>>] : l \in EmbedTextLists(MaxTexts), svc \in Services}

\* embed_texts: one pass of its loop, or its return after the last text;
\* an exception of embed_text ends embed_texts
call_embed_texts ==
    /\ call.fn = "embed_texts"
    /\ ~call.done
    /\ LET embeddings == IF call.embedded = 0 THEN <<>> ELSE returned.embeddings
       IN  IF call.embedded = Len(call.texts)
           THEN /\ returned' = [raised |-> FALSE, embeddings |-> embeddings]
                /\ call' = [call EXCEPT !.done = TRUE]
           ELSE \E env \in Environments :
                  LET text == call.texts[call.embedded + 1]
                      got  == embed_text(text, call.svc, env)
                  IN  /\ returned' = [raised |-> got.raised,
                                      embeddings |-> IF got.raised THEN embeddings
                                                     ELSE Append(embeddings, got.embedding)]
                      /\ call' = [call EXCEPT !.embedded = @ + 1,
                                              !.svc.local_model = got.local_model,
                                              !.envs = Append(@, [env |-> env, local_model |-> call.svc.local_model]),
                                              !.done = got.raised]
    /\ UNCHANGED <<sessionVars, chatVars, storeVars, ingestVars, histVars, chunkVars>>

Calls == RouterCalls \cup PromptCalls \cup CsvCalls \cup HashCalls \cup EmbedCalls

InitCalls ==
    /\ InitSessionsIdle
    /\ InitChatIdle
    /\ InitStoreIdle
    /\ InitIngestIdle
    /\ InitHistIdle
    /\ InitChunkIdle
    /\ call \in Calls
    /\ returned = "none"

NextCalls ==
    \/ call_should_use_rag
    \/ call_build_intelligent_prompt
    \/ call_process_csv_content
    \/ call_simple_hash_embedding
    \/ call_embed_texts

SpecCalls == InitCalls /\ [][NextCalls]_vars

\* The calls of chunk_sql
InitSql ==
    /\ InitSessionsIdle
    /\ InitChatIdle
    /\ InitStoreIdle
    /\ InitIngestIdle
    /\ InitHistIdle
    /\ InitChunkIdle
    /\ call \in SqlCalls
    /\ returned = "none"

NextSql == call_chunk_sql

SpecSql == InitSql /\ [][NextSql]_vars

(***************************************************************************)
(* vectorstore_service.query_similar and rag_pipeline.process_query on the  *)
(* store of SpecStore.  collection.query raises on the handle of a dropped  *)
(* collection and when the store cannot be reached.  The order of the       *)
(* documents by distance is taken to be the order of insertion.             *)
(***************************************************************************)
top_k == 8      \* top_k: int = 8

EmptyResults == [documents |-> <<>>, metadatas |-> <<>>, distances |-> <<>>, ids |-> <<>>]

\* What collection.query returns for the records of the collection
QueryResults(records, n_results) ==
    LET found == FirstN(records, n_results)
    IN  [documents |-> found,
         metadatas |-> [j \in 1..Len(found) |-> found[j][1]],
         distances |-> [j \in 1..Len(found) |-> j],
         ids       |-> [j \in 1..Len(found) |-> found[j]]]

\* query_similar whose except clause raises again, as the one of add_document does
query_similar_reraise(inst, n_results, unreachable) ==
    IF handle[inst] # dbCollection \/ unreachable
    THEN [raised |-> TRUE, results |-> EmptyResults]
    ELSE [raised |-> FALSE, results |-> QueryResults(dbRecords, n_results)]

query_similar(inst, n_results, unreachable) ==
    IF handle[inst] # dbCollection \/ unreachable
    THEN [raised |-> FALSE, results |-> EmptyResults]
    ELSE [raised |-> FALSE, results |-> QueryResults(dbRecords, n_results)]

NoContext == "No relevant code context found in your project."

\* _format_context: the placeholder, or one part per document
_format_context(results) ==
    IF results.documents = <<>>
    THEN [placeholder |-> NoContext, parts |-> <<>>]
    ELSE [placeholder |-> "",
          parts |-> [j \in 1..Len(results.documents) |->
                        [doc |-> results.documents[j], metadata |-> results.metadatas[j],
                         distance |-> results.distances[j]]]]

\* The first resumption of process_query: steps 1 to 5 and the first step of
\* stream_chat_completion.  embed_text does not raise, a query_similar that
\* raises ends the try block at the stage SEARCH, and the outcomes are those
\* of process_query for this run of the stages.
process_query_first(query, inst, unreachable) ==
    LET searched == query_similar(inst, top_k, unreachable)
        context  == _format_context(searched.results)
        prompt   == [builder |-> _build_intelligent_prompt(query), query |-> query,
                     context |-> context]
        outcomes == process_query("new", "new", 0)
    IN  IF searched.raised
        THEN { [outcome |-> o, results |-> EmptyResults, context |-> _format_context(EmptyResults),
                prompt |-> [builder |-> "none", query |-> query,
                            context |-> _format_context(EmptyResults)]] :
                   o \in {x \in outcomes : x.failed = "SEARCH"} }
        ELSE { [outcome |-> o, results |-> searched.results, context |-> context,
                prompt |-> prompt] :
                   o \in {x \in outcomes : x.failed \in {"none", "GENERATE"}} }

PipelineQueries == { <<"f", "i", "x">>, <<"w", "r", "i", "t", "e">> }

NoPrompt == [builder |-> "none", query |-> <<>>, context |-> _format_context(EmptyResults)]

\* One resumption of process_query by its consumer.  call holds the state of
\* the generator, returned what it computed and yielded so far.
call_process_query ==
    /\ call.fn = "process_query"
    /\ ~call.done
    /\ IF call.pq = "new"
       THEN \E unreachable \in BOOLEAN :
              \E f \in process_query_first(call.query, "chat", unreachable) :
                /\ returned' = [results |-> f.results, context |-> f.context,
                                prompt |-> f.prompt,
                                yielded |-> IF f.outcome.kind = "token"
                                            THEN <<f.outcome.token>> ELSE <<>>]
                /\ call' = [call EXCEPT
                      !.pq = f.outcome.pq, !.llm = f.outcome.llm,
                      !.stages = f.outcome.stages,
                      !.query_failed = (handle["chat"] # dbCollection \/ unreachable),
                      !.n = IF f.outcome.kind = "token" /\ f.outcome.failed = "none"
                            THEN 1 ELSE 0,
                      !.done = (f.outcome.kind = "end")]
       ELSE \E o \in process_query(call.pq, call.llm, call.n) :
                /\ returned' = [returned EXCEPT
                      !.yielded = IF o.kind = "token" THEN Append(@, o.token) ELSE @]
                /\ call' = [call EXCEPT
                      !.pq = o.pq, !.llm = o.llm,
                      !.n = IF o.kind = "token" /\ o.failed = "none" THEN @ + 1 ELSE @,
                      !.done = (o.kind = "end")]
    /\ UNCHANGED <<sessionVars, chatVars, storeVars, ingestVars, histVars, chunkVars>>

InitQuery ==
    /\ InitSessionsIdle
    /\ InitChatIdle
    /\ InitStoreIdle
    /\ ingest = [k \in IngestIds |-> IdleIngest]
    /\ clearLog = <<>>
    /\ InitHistIdle
    /\ InitChunkIdle
    /\ call \in {[fn |-> "process_query", done |-> FALSE, query |-> q, pq |-> "new",
                  llm |-> "new", n |-> 0, stages |-> <<>>, query_failed |-> FALSE] :
                    q \in PipelineQueries}
    /\ returned = [results |-> EmptyResults, context |-> _format_context(EmptyResults),
                   prompt |-> NoPrompt, yielded |-> <<>>]

NextQuery ==
    \/ \E k \in IngestIds, n \in 0..MaxChunks : add_document(k, n)
    \/ \E k \in IngestIds : add_document_insert(k)
    \/ \E inst \in {"admin", "code_assistant", "ingestion"} : clear_collection(inst)
    \/ call_process_query

SpecQuery == InitQuery /\ [][NextQuery]_vars

(***************************************************************************)
(* Properties of the functions (specification SpecCalls)                    *)
(***************************************************************************)
\* The message, lower-cased and trimmed, contains one of the patterns
ContainsAny(patterns, message) ==
    \E p \in patterns : \E i \in 1..(Len(message) + 1) :
        StartsWithAt(strip(lower(message)), i, p)

\* C13: should_use_rag decides in this order: a message of at most 3 words
\* that matches the greeting lexicon gives false; otherwise a message that
\* contains a project keyword gives true; otherwise a message that contains a
\* self-referential phrase gives true; otherwise false.  "hi" gives false and
\* "how do I fix this bug in my API" gives true.
C13_RouterPolicy ==
    (call.fn = "should_use_rag" /\ call.done) =>
        LET greeting == /\ word_count(call.message) <= 3
                        /\ ContainsAny(simple_patterns, call.message)
            keyword  == ContainsAny(project_keywords, call.message)
            selfref  == ContainsAny(self_reference_phrases, call.message)
        IN  /\ greeting => returned = FALSE
            /\ (~greeting /\ keyword) => returned = TRUE
            /\ (~greeting /\ ~keyword /\ selfref) => returned = TRUE
            /\ (~greeting /\ ~keyword /\ ~selfref) => returned = FALSE
            /\ call.message = MessageHi => returned = FALSE
            /\ call.message = MessageFixApi => returned = TRUE

\* A message of at most 3 words that holds a greeting and a project keyword
\* was sent to the general model
C13_Witness ==
    /\ call.fn = "should_use_rag"
    /\ call.done
    /\ word_count(call.message) <= 3
    /\ ContainsAny(simple_patterns, call.message)
    /\ ContainsAny(project_keywords, call.message)
    /\ returned = FALSE

\* One of the words occurs in the lower-cased query
Mentions(words, query) == \E w \in words : Occurs(w, lower(query))

\* C14: the prompt template is chosen by a fixed priority, first match wins:
\* a debugging word gives the debugging template, also when architecture or
\* review words occur; else an architecture word gives the architecture
\* template, also when review words occur; else a review word gives the
\* review template; a query with none of them gets the generation template.
C14_TaskTypePriority ==
    (call.fn = "_build_intelligent_prompt" /\ call.done) =>
        LET debugging    == Mentions(debugging_words, call.message)
            architecture == Mentions(architecture_words, call.message)
            review       == Mentions(review_words, call.message)
        IN  /\ returned \in {"build_debugging_prompt", "build_architecture_prompt",
                             "build_code_review_prompt", "build_code_generation_prompt"}
            /\ debugging <=> returned = "build_debugging_prompt"
            /\ (~debugging /\ architecture) <=> returned = "build_architecture_prompt"
            /\ (~debugging /\ ~architecture /\ review) <=> returned = "build_code_review_prompt"
            /\ (~debugging /\ ~architecture /\ ~review)
                  <=> returned = "build_code_generation_prompt"

\* A query with a debugging, an architecture and a review word got the
\* debugging template
C14_Witness ==
    /\ call.fn = "_build_intelligent_prompt"
    /\ call.done
    /\ Mentions(debugging_words, call.message)
    /\ Mentions(architecture_words, call.message)
    /\ Mentions(review_words, call.message)
    /\ returned = "build_debugging_prompt"


\* Content under the size limit
CsvUnderLimit(csv_content) == csv_len(csv_content) < csv_full_scan_limit

\* C15: for content under the size limit with a header and n data rows: when
\* n <= 1000 the result is a header-summary chunk with row_count = n and, when
\* n >= 1, one sample chunk with the first min(n, 10) data rows; when n > 1000
\* the result is three chunks: header-summary with row_count = n, a sample of
\* the first 20 data rows and a statistics chunk.
C15_CsvRowThreshold ==
    (call.fn = "_process_csv_content" /\ call.done /\ CsvUnderLimit(call.content)) =>
        LET n      == call.content.rows
            rowsTo(m) == [i \in 1..m |-> <<i, call.content.row_width>>]
            least  == IF n < 10 THEN n ELSE 10
        IN  /\ n <= 1000 =>
                /\ Len(returned) = (IF n >= 1 THEN 2 ELSE 1)
                /\ returned[1].chunk_type = "csv_header"
                /\ returned[1].row_count = n
                /\ n >= 1 => /\ returned[2].chunk_type = "csv_sample"
                             /\ returned[2].sample_rows = rowsTo(least)
            /\ n > 1000 =>
                /\ Len(returned) = 3
                /\ returned[1].chunk_type = "csv_header_large"
                /\ returned[1].row_count = n
                /\ returned[2].chunk_type = "csv_sample_large"
                /\ returned[2].sample_rows = rowsTo(20)
                /\ returned[3].chunk_type = "csv_statistics"

\* C16: content of size 10,000,000 or more takes the prefix-only path (the
\* lines come from the first 1000 characters, the sample holds at most 5
\* rows, the row count is the size divided by 100), and content of a smaller
\* size takes the full-scan path.
C16_CsvSizeCeiling ==
    (call.fn = "_process_csv_content" /\ call.done) =>
        LET size == csv_len(call.content)
        IN  /\ size >= 10000000 =>
                /\ returned[1].chunk_type = "csv_header_very_large"
                /\ returned[1].estimated_rows = size \div 100
                /\ returned[1].header[2] <= 1000
                /\ Len(returned) = 2 =>
                      /\ returned[2].chunk_type = "csv_sample_very_large"
                      /\ returned[2].sample_size <= 5
                      /\ \A i \in 1..Len(returned[2].sample_rows) :
                            csv_line_start(call.content, returned[2].sample_rows[i][1])
                              + returned[2].sample_rows[i][2] <= 1000
            /\ size < 10000000 =>
                /\ returned[1].chunk_type \in {"csv_header", "csv_header_large"}
                /\ returned[1].row_count = call.content.rows


\* The words of a statement, lower-cased
SqlWords(statement) ==
    SelectSeq(split(lower(statement), " "), LAMBDA w : strip(w) # <<>>)

\* The classification of a statement by its leading keyword
LeadingKeyword(statement) ==
    LET words == SqlWords(statement)
        first == IF Len(words) >= 1 THEN words[1] ELSE <<>>
        second == IF Len(words) >= 2 THEN words[2] ELSE <<>>
    IN  IF first = <<"c", "r", "e", "a", "t", "e">> /\ second = <<"t", "a", "b", "l", "e">>
        THEN "CREATE_TABLE"
        ELSE IF first = <<"c", "r", "e", "a", "t", "e">> /\ second = <<"i", "n", "d", "e", "x">>
        THEN "CREATE_INDEX"
        ELSE IF first = <<"i", "n", "s", "e", "r", "t">> THEN "INSERT"
        ELSE IF first = <<"s", "e", "l", "e", "c", "t">> THEN "SELECT"
        ELSE "UNKNOWN"

\* The statements of a text that are not empty after trimming, trimmed
SqlKept(text) ==
    LET pieces == re_split(text, ";")
        kept   == SelectSeq(pieces, LAMBDA st : strip(st) # <<>>)
    IN  [k \in 1..Len(kept) |-> strip(kept[k])]

\* chunk_sql returned one chunk per statement that is not empty, in source
\* order, each with the classification of its leading keyword
SqlChunksClassified ==
    (call.fn = "chunk_sql" /\ call.done) =>
        /\ Len(returned) = Len(SqlKept(call.text))
        /\ \A k \in 1..Len(returned) :
              /\ returned[k].content = SqlKept(call.text)[k]
              /\ returned[k].chunk_type = "sql_statement"
              /\ returned[k].statement_type = LeadingKeyword(returned[k].content)

\* C17: chunk_sql splits on ";" followed by a newline, drops the statements
\* that are empty after trimming, emits one chunk per remaining statement in
\* source order with the classification of its leading keyword, and the k-th
\* emitted chunk has statement_index k, also after dropped empty statements.
C17_SqlStatementOrdinals ==
    /\ SqlChunksClassified
    /\ (call.fn = "chunk_sql" /\ call.done) =>
          \A k \in 1..Len(returned) : returned[k].statement_index = k


ModelEmbeddingAvailable(k) ==
    /\ call.svc.SENTENCE_TRANSFORMERS_AVAILABLE
    /\ ~call.envs[k].env.encode_fails
    /\ (call.envs[k].local_model = "model" \/ ~call.envs[k].env.load_fails)

GeneratorTokens(yielded) ==
    \A j \in 1..Len(yielded) :
        \/ yielded[j] = TokenAt(j - 1)
        \/ yielded[j] = ErrLLM /\ j = Len(yielded)

\* C20: when the query of the vector store fails, query_similar returns an
\* empty result set and does not raise, and process_query composes a prompt
\* with the "no relevant context" placeholder and passes on the tokens of the
\* generator, none of them the error token of the pipeline.
C20_IndexFailureDegrades ==
    (call.fn = "process_query" /\ call.query_failed) =>
        /\ returned.results = EmptyResults
        /\ returned.context.placeholder = NoContext
        /\ returned.prompt.builder = _build_intelligent_prompt(call.query)
        /\ returned.prompt.context.placeholder = NoContext
        /\ ErrRAG \notin {returned.yielded[j] : j \in 1..Len(returned.yielded)}
        /\ GeneratorTokens(returned.yielded)
        /\ call.stages = <<"EMBED", "SEARCH", "FORMAT", "COMPOSE", "GENERATE">>

\* The query ran on the handle of a collection that held documents and was
\* dropped, and the stream of the generator was passed on to its end
C20_Witness ==
    /\ call.fn = "process_query"
    /\ call.done
    /\ call.query_failed
    /\ handle["chat"] # dbCollection
    /\ \E j \in 1..Len(clearLog) : clearLog[j].dropped /\ clearLog[j].count > 0
    /\ returned.yielded = <<TokenAt(0), TokenAt(1)>>


(***************************************************************************)
(* services/file_ingestion_service.py: process_uploaded_files as one call.  *)
(* A file of the upload is given by what happens to it: whether             *)
(* _validate_files accepts it, whether its processing raises (writing the   *)
(* temporary file, process_file, chunk_document), and how many chunks       *)
(* chunk_document returns.  Files are named by their position in the        *)
(* upload; a stored record is <<f, j>>: chunk j of file f.  add_raises is   *)
(* the set of sub-batches (1, 2, ...) for which collection.add raises.      *)
(***************************************************************************)
MaxFiles == 6        \* files of one upload at most

file_batch_size == 5         \* file_ingestion_service.py: batch_size = 5

UploadFile(valid, raises, n) == [valid |-> valid, raises |-> raises, n_chunks |-> n]

_validate_files(uploaded_files) ==
    LET names == [f \in 1..Len(uploaded_files) |-> f]
    IN  [valid_files   |-> SelectSeq(names, LAMBDA f : uploaded_files[f].valid),
         invalid_files |-> SelectSeq(names, LAMBDA f : ~uploaded_files[f].valid)]

\* The loop over the files of one batch: a file that raises is recorded in
\* failed_files and the loop goes on with the next file.
RECURSIVE _process_file_batch(_, _, _)
_process_file_batch(uploaded_files, file_batch, stats) ==
    IF file_batch = <<>>
    THEN [batch_chunks |-> <<>>, processing_stats |-> stats]
    ELSE LET f     == Head(file_batch)
             info  == uploaded_files[f]
             made  == IF info.raises THEN <<>>
                      ELSE [j \in 1..info.n_chunks |-> <<f, j>>]
             after == IF info.raises
                      THEN [stats EXCEPT !.failed_files = Append(@, f),
                                         !.files_failed = @ + 1]
                      ELSE [stats EXCEPT !.files_processed = @ + 1,
                                         !.chunks_created = @ + Len(made)]
             rest  == _process_file_batch(uploaded_files, Tail(file_batch), after)
         IN  [batch_chunks |-> made \o rest.batch_chunks,
              processing_stats |-> rest.processing_stats]

\* for i in range(0, len(valid_files), batch_size): all_chunks.extend(...)
RECURSIVE process_file_batches(_, _, _, _)
process_file_batches(uploaded_files, valid_files, i, stats) ==
    IF i >= Len(valid_files)
    THEN [all_chunks |-> <<>>, processing_stats |-> stats]
    ELSE LET batch == SubSeq(valid_files, i + 1, Min(i + file_batch_size, Len(valid_files)))
             this  == _process_file_batch(uploaded_files, batch, stats)
             rest  == process_file_batches(uploaded_files, valid_files,
                                           i + file_batch_size, this.processing_stats)
         IN  [all_chunks |-> this.batch_chunks \o rest.all_chunks,
              processing_stats |-> rest.processing_stats]

\* The loop of _store_chunks_in_vectordb run to its end: embed_texts does not
\* raise, add_documents logs and re-raises what collection.add raises, and
\* nothing in the loop catches it.
RECURSIVE store_chunks_loop(_, _, _)
store_chunks_loop(all_chunks, i, add_raises) ==
    IF i >= Len(all_chunks)
    THEN [stored |-> <<>>, raised |-> FALSE]
    ELSE LET batch == SubSeq(all_chunks, i + 1, Min(i + embedding_batch_size, Len(all_chunks)))
         IN  IF (i \div embedding_batch_size) + 1 \in add_raises
             THEN [stored |-> <<>>, raised |-> TRUE]
             ELSE LET rest == store_chunks_loop(all_chunks, i + embedding_batch_size, add_raises)
                  IN  [stored |-> batch \o rest.stored, raised |-> rest.raised]

_build_result_summary(stats, status) ==
    [status          |-> status,
     files_processed |-> stats.files_processed,
     files_failed    |-> stats.files_failed,
     chunks_created  |-> stats.chunks_created,
     failed_files    |-> stats.failed_files]

\* The result summary and the records the call has put into the collection
process_uploaded_files(uploaded_files, add_raises) ==
    LET checked == _validate_files(uploaded_files)
        reset   == [files_processed |-> 0, files_failed |-> 0, chunks_created |-> 0,
                    failed_files |-> checked.invalid_files]
    IN  IF checked.valid_files = <<>>
        THEN [result |-> _build_result_summary(reset, "No valid files to process"),
              stored |-> <<>>]
        ELSE LET made == process_file_batches(uploaded_files, checked.valid_files, 0, reset)
                 kept == IF made.all_chunks # <<>>
                         THEN store_chunks_loop(made.all_chunks, 0, add_raises)
                         ELSE [stored |-> <<>>, raised |-> FALSE]
             IN  [result |-> _build_result_summary(made.processing_stats,
                                 IF kept.raised THEN "Error" ELSE "Success"),
                  stored |-> kept.stored]

UploadKinds ==
    {UploadFile(FALSE, FALSE, 0), UploadFile(TRUE, TRUE, 0),
     UploadFile(TRUE, FALSE, 1), UploadFile(TRUE, FALSE, embedding_batch_size)}

UploadLists == UNION {[1..n -> UploadKinds] : n \in 1..MaxFiles}

UploadCalls ==
    {[fn |-> "process_uploaded_files", done |-> FALSE, uploaded_files |-> fs, add_raises |-> ar] :
        fs \in UploadLists, ar \in {{}, {1}, {2}}}

call_process_uploaded_files ==
    /\ call.fn = "process_uploaded_files"
    /\ ~call.done
    /\ LET out == process_uploaded_files(call.uploaded_files, call.add_raises)
       IN  /\ returned' = out.result
           /\ dbRecords' = dbRecords \o out.stored
    /\ call' = [call EXCEPT !.done = TRUE]
    /\ UNCHANGED <<sessionVars, chatVars, dbCollection, handle, ingestVars, histVars, chunkVars>>

(***************************************************************************)
(* services/rag_pipeline.py: add_document as one call.  The document is     *)
(* given by what chunking makes of it (it raises, or it returns n chunks)   *)
(* and by the chunk whose embedding or insertion raises, 0 for none.  The   *)
(* records of the document are <<"doc", i>>, i counting from 0 as chunk_id  *)
(* does.                                                                    *)
(***************************************************************************)
MaxDocChunks == 12   \* chunks of the document of one add_document call at most

AddedDocument == "doc"

RECURSIVE add_document_loop(_, _, _)
\* for i, chunk in enumerate(chunks): embed, insert, chunks_added += 1;
\* stops at the chunk that raises
add_document_loop(i, n, raises_at) ==
    IF i >= n THEN [inserted |-> <<>>, raised |-> FALSE]
    ELSE IF i + 1 = raises_at THEN [inserted |-> <<>>, raised |-> TRUE]
    ELSE LET rest == add_document_loop(i + 1, n, raises_at)
         IN  [inserted |-> <<<<AddedDocument, i>>>> \o rest.inserted, raised |-> rest.raised]

\* The result of RAGPipeline.add_document and the records it has inserted
add_document_call(chunking_raises, n, raises_at) ==
    IF chunking_raises
    THEN [result |-> [status |-> "error", chunks_added |-> 0], inserted |-> <<>>]
    ELSE IF n = 0
    THEN [result |-> [status |-> "warning", chunks_added |-> 0], inserted |-> <<>>]
    ELSE LET done == add_document_loop(0, n, raises_at)
         IN  IF done.raised
             THEN [result |-> [status |-> "error", chunks_added |-> 0],
                   inserted |-> done.inserted]
             ELSE [result |-> [status |-> "success", chunks_added |-> Len(done.inserted)],
                   inserted |-> done.inserted]

AddDocumentCalls ==
    {[fn |-> "add_document", done |-> FALSE, chunking_raises |-> c, n |-> n, raises_at |-> k] :
        c \in BOOLEAN, n \in 0..MaxDocChunks, k \in 0..MaxDocChunks}

call_add_document ==
    /\ call.fn = "add_document"
    /\ ~call.done
    /\ LET out == add_document_call(call.chunking_raises, call.n, call.raises_at)
       IN  /\ returned' = out.result
           /\ dbRecords' = dbRecords \o out.inserted
    /\ call' = [call EXCEPT !.done = TRUE]
    /\ UNCHANGED <<sessionVars, chatVars, dbCollection, handle, ingestVars, histVars, chunkVars>>

InitUpload ==
    /\ InitSessionsIdle
    /\ InitChatIdle
    /\ InitStoreIdle
    /\ InitIngestIdle
    /\ InitHistIdle
    /\ InitChunkIdle
    /\ call \in UploadCalls \cup AddDocumentCalls
    /\ returned = "none"

NextUpload ==
    \/ call_process_uploaded_files
    \/ call_add_document

SpecUpload == InitUpload /\ [][NextUpload]_vars

\* Position in all_chunks of the first chunk of file f, less one: the chunks
\* made from the files before it
RECURSIVE ChunksBefore(_, _)
ChunksBefore(files, f) ==
    IF f = 1 THEN 0
    ELSE ChunksBefore(files, f - 1)
            + (IF files[f - 1].valid /\ ~files[f - 1].raises THEN files[f - 1].n_chunks ELSE 0)

\* The sub-batches of the embedding and store loop that hold chunks of file f
SubBatchesOf(files, f) ==
    {((ChunksBefore(files, f) + j - 1) \div embedding_batch_size) + 1 : j \in 1..files[f].n_chunks}

\* C21: in process_uploaded_files a file whose processing raises is recorded
\* in failed_files, and every valid file that was processed has all its
\* chunks in the vector store when the call returns, whatever happened to
\* the other files and to the sub-batches that hold none of its chunks.
C21_BatchFailureIsolation ==
    (call.fn = "process_uploaded_files" /\ call.done) =>
       \A f \in 1..Len(call.uploaded_files) :
          LET info == call.uploaded_files[f]
          IN  /\ (info.valid /\ info.raises) =>
                    \E p \in 1..Len(returned.failed_files) : returned.failed_files[p] = f
              /\ (info.valid /\ ~info.raises
                     /\ SubBatchesOf(call.uploaded_files, f) \cap call.add_raises = {}) =>
                    \A j \in 1..info.n_chunks :
                       \E p \in 1..Len(dbRecords) : dbRecords[p] = <<f, j>>

\* The part of C21 the code keeps: a file that raises costs no other file
\* its chunks as long as no sub-batch fails.
UploadFileIsolation ==
    (call.fn = "process_uploaded_files" /\ call.done /\ call.add_raises = {}) =>
       /\ returned.status \in {"Success", "No valid files to process"}
       /\ \A f \in 1..Len(call.uploaded_files) :
             LET info == call.uploaded_files[f]
             IN  (info.valid /\ ~info.raises) =>
                    \A j \in 1..info.n_chunks :
                       \E p \in 1..Len(dbRecords) : dbRecords[p] = <<f, j>>


(***************************************************************************)
(* services/document_processor.py: process_file.  A file is its extension,  *)
(* what reading it does (the text is read, open or read raises, the         *)
(* library of a binary format is missing), its text, and for a PDF or a     *)
(* Word document the texts of its pages or paragraphs.  The data handlers   *)
(* _process_csv and _process_excel build a summary with pandas and are not  *)
(* modelled.                                                                *)
(***************************************************************************)
MaxFileLen == 2      \* characters of a file's text at most
MaxParts == 2        \* pages of a PDF, paragraphs of a Word document at most

CodeExtensions ==
    {".py", ".js", ".ts", ".jsx", ".tsx", ".java", ".cpp", ".c", ".h", ".go", ".rs", ".rb",
     ".php", ".swift", ".kt", ".scala", ".html", ".css", ".scss", ".sass", ".sh", ".bat", ".ps1"}

ConfigExtensions == {".json", ".yaml", ".yml", ".toml", ".ini", ".xml", ".properties"}

\* self.handlers: the name of the handler of an extension, None without one
handlers(ext) ==
    IF ext \in CodeExtensions THEN "_process_code"
    ELSE IF ext \in ConfigExtensions THEN "_process_config"
    ELSE IF ext = ".md" THEN "_process_markdown"
    ELSE IF ext \in {".txt", ".rst"} THEN "_process_text"
    ELSE IF ext = ".pdf" THEN "_process_pdf"
    ELSE IF ext = ".docx" THEN "_process_docx"
    ELSE IF ext = ".sql" THEN "_process_sql"
    ELSE None

\* str(e) of the exception of a failed read
ErrorText == <<"e", "r", "r", "n", "o">>

_process_code(file) ==
    IF file.reading = "raises" THEN <<"#", " ", "E", "r", "r", "o", "r", " ", "r", "e", "a", "d", "i", "n", "g", " ", "f", "i", "l", "e", ":", " ">> \o ErrorText
    ELSE IF strip(file.text) = <<>> THEN <<"#", " ", "E", "m", "p", "t", "y", " ", "f", "i", "l", "e">>
    ELSE file.text

config_type(ext) ==
    IF ext = ".json" THEN <<"J", "S", "O", "N", " ", "C", "o", "n", "f", "i", "g", "u", "r", "a", "t", "i", "o", "n">>
    ELSE IF ext \in {".yaml", ".yml"} THEN <<"Y", "A", "M", "L", " ", "C", "o", "n", "f", "i", "g", "u", "r", "a", "t", "i", "o", "n">>
    ELSE IF ext = ".toml" THEN <<"T", "O", "M", "L", " ", "C", "o", "n", "f", "i", "g", "u", "r", "a", "t", "i", "o", "n">>
    ELSE IF ext = ".ini" THEN <<"I", "N", "I", " ", "C", "o", "n", "f", "i", "g", "u", "r", "a", "t", "i", "o", "n">>
    ELSE IF ext = ".xml" THEN <<"X", "M", "L", " ", "C", "o", "n", "f", "i", "g", "u", "r", "a", "t", "i", "o", "n">>
    ELSE IF ext = ".properties" THEN <<"P", "r", "o", "p", "e", "r", "t", "i", "e", "s", " ", "C", "o", "n", "f", "i", "g", "u", "r", "a", "t", "i", "o", "n">>
    ELSE <<"C", "o", "n", "f", "i", "g", "u", "r", "a", "t", "i", "o", "n">>

_process_config(file) ==
    IF file.reading = "raises" THEN <<"#", " ", "E", "r", "r", "o", "r", " ", "r", "e", "a", "d", "i", "n", "g", " ", "c", "o", "n", "f", "i", "g", "u", "r", "a", "t", "i", "o", "n", ":", " ">> \o ErrorText
    ELSE <<"#", " ">> \o config_type(file.ext) \o <<" ", "F", "i", "l", "e", "\n", "\n">> \o file.text

_process_markdown(file) ==
    IF file.reading = "raises" THEN <<"#", " ", "E", "r", "r", "o", "r", " ", "r", "e", "a", "d", "i", "n", "g", " ", "m", "a", "r", "k", "d", "o", "w", "n", ":", " ">> \o ErrorText
    ELSE file.text

_process_text(file) ==
    IF file.reading = "raises" THEN <<"E", "r", "r", "o", "r", " ", "r", "e", "a", "d", "i", "n", "g", " ", "t", "e", "x", "t", " ", "f", "i", "l", "e", ":", " ">> \o ErrorText
    ELSE file.text

\* text_parts of _process_pdf: the pages with text, under their page number
RECURSIVE pdf_text_parts(_, _)
pdf_text_parts(pages, page_num) ==
    IF page_num > Len(pages) THEN <<>>
    ELSE (IF strip(pages[page_num]) # <<>>
          THEN <<<<"=", "=", "=", " ", "P", "a", "g", "e", " ">> \o DecimalDigits(page_num) \o <<" ", "=", "=", "=", "\n">> \o pages[page_num]>>
          ELSE <<>>) \o pdf_text_parts(pages, page_num + 1)

_process_pdf(file) ==
    IF file.reading = "import_error" THEN <<"#", " ", "P", "D", "F", " ", "p", "r", "o", "c", "e", "s", "s", "i", "n", "g", " ", "r", "e", "q", "u", "i", "r", "e", "s", " ", "P", "y", "P", "D", "F", "2", " ", "l", "i", "b", "r", "a", "r", "y">>
    ELSE IF file.reading = "raises" THEN <<"#", " ", "E", "r", "r", "o", "r", " ", "r", "e", "a", "d", "i", "n", "g", " ", "P", "D", "F", ":", " ">> \o ErrorText
    ELSE LET text_parts == pdf_text_parts(file.parts, 1)
         IN  IF text_parts # <<>> THEN join(text_parts, <<"\n", "\n">>)
             ELSE <<"#", " ", "E", "m", "p", "t", "y", " ", "P", "D", "F", " ", "o", "r", " ", "t", "e", "x", "t", " ", "e", "x", "t", "r", "a", "c", "t", "i", "o", "n", " ", "f", "a", "i", "l", "e", "d">>

_process_docx(file) ==
    IF file.reading = "import_error" THEN <<"#", " ", "D", "O", "C", "X", " ", "p", "r", "o", "c", "e", "s", "s", "i", "n", "g", " ", "r", "e", "q", "u", "i", "r", "e", "s", " ", "p", "y", "t", "h", "o", "n", "-", "d", "o", "c", "x", " ", "l", "i", "b", "r", "a", "r", "y">>
    ELSE IF file.reading = "raises" THEN <<"#", " ", "E", "r", "r", "o", "r", " ", "r", "e", "a", "d", "i", "n", "g", " ", "D", "O", "C", "X", ":", " ">> \o ErrorText
    ELSE LET paragraphs == SelectSeq(file.parts, LAMBDA para : strip(para) # <<>>)
         IN  IF paragraphs # <<>> THEN join(paragraphs, <<"\n", "\n">>)
             ELSE <<"#", " ", "E", "m", "p", "t", "y", " ", "d", "o", "c", "u", "m", "e", "n", "t">>

_process_sql(file) ==
    IF file.reading = "raises" THEN <<"-", "-", " ", "E", "r", "r", "o", "r", " ", "r", "e", "a", "d", "i", "n", "g", " ", "S", "Q", "L", ":", " ">> \o ErrorText
    ELSE <<"-", "-", " ", "S", "Q", "L", " ", "D", "a", "t", "a", "b", "a", "s", "e", " ", "S", "c", "r", "i", "p", "t", "\n", "\n">> \o file.text

\* process_file(file_path, filename) for a filename with the suffix file.ext:
\* the text and the file_type of the metadata, or the ValueError for an
\* extension without a handler
process_file(file) ==
    IF handlers(file.ext) = None
    THEN [raised |-> TRUE, text |-> <<>>, file_type |-> file.ext]
    ELSE LET handler == handlers(file.ext)
             text == IF handler = "_process_code" THEN _process_code(file)
                     ELSE IF handler = "_process_config" THEN _process_config(file)
                     ELSE IF handler = "_process_markdown" THEN _process_markdown(file)
                     ELSE IF handler = "_process_text" THEN _process_text(file)
                     ELSE IF handler = "_process_pdf" THEN _process_pdf(file)
                     ELSE IF handler = "_process_docx" THEN _process_docx(file)
                     ELSE _process_sql(file)
         IN  [raised |-> FALSE, text |-> text, file_type |-> file.ext]

FileChars == {" ", "\n", "a"}

FileTexts == UNION {[1..n -> FileChars] : n \in 0..MaxFileLen}

FileParts == UNION {[1..n -> FileTexts] : n \in 0..MaxParts}

TextExtensions == {".py", ".html", ".sh", ".json", ".yml", ".md", ".txt", ".rst", ".sql"}

BinaryExtensions == {".pdf", ".docx"}

Files ==
    {[ext |-> e, reading |-> r, text |-> t, parts |-> <<>>] :
        e \in TextExtensions \cup {".zip"}, r \in {"read", "raises"}, t \in FileTexts}
    \cup {[ext |-> e, reading |-> r, text |-> <<>>, parts |-> p] :
        e \in BinaryExtensions, r \in {"read", "raises", "import_error"}, p \in FileParts}

ExtractCalls == {[fn |-> "process_file", done |-> FALSE, file |-> f] : f \in Files}

call_process_file ==
    /\ call.fn = "process_file"
    /\ ~call.done
    /\ returned' = process_file(call.file)
    /\ call' = [call EXCEPT !.done = TRUE]
    /\ UNCHANGED <<sessionVars, chatVars, storeVars, ingestVars, histVars, chunkVars>>

InitExtract ==
    /\ InitSessionsIdle
    /\ InitChatIdle
    /\ InitStoreIdle
    /\ InitIngestIdle
    /\ InitHistIdle
    /\ InitChunkIdle
    /\ call \in ExtractCalls
    /\ returned = "none"

NextExtract == call_process_file

SpecExtract == InitExtract /\ [][NextExtract]_vars

\* The categories of a supported file: code, web and scripts; configuration;
\* documentation; SQL; binary formats
ExtractCategoryOf(ext) ==
    IF ext \in CodeExtensions THEN "code"
    ELSE IF ext \in ConfigExtensions THEN "config"
    ELSE IF ext \in {".md", ".txt", ".rst"} THEN "docs"
    ELSE IF ext = ".sql" THEN "sql"
    ELSE IF ext \in BinaryExtensions THEN "binary"
    ELSE "unsupported"

\* C22: for a file of a supported category (code, web and scripts,
\* configuration, documentation, SQL, binary formats) process_file returns a
\* text that is not empty and not whitespace only, also for an empty and for
\* an unreadable file.
C22_ExtractorNonEmptyText ==
    (call.fn = "process_file" /\ call.done /\ ExtractCategoryOf(call.file.ext) # "unsupported") =>
       /\ ~returned.raised
       /\ strip(returned.text) # <<>>

\* The part of C22 the code keeps: every category but documentation read
\* without an error
ExtractorNonEmptyButDocs ==
    (call.fn = "process_file" /\ call.done
        /\ ExtractCategoryOf(call.file.ext) \notin {"unsupported", "docs"}) =>
       /\ ~returned.raised
       /\ strip(returned.text) # <<>>


(***************************************************************************)
(* core/code_prompts.py: the prompt builders.  A prompt is the record of    *)
(* what its template interpolates: the task section, the context, the       *)
(* request and the rendered history (a sequence of lines, each the role     *)
(* label and the text after it).  The fixed wording of a template and       *)
(* _analyze_code_context, which reads the context only, are left out.       *)
(***************************************************************************)
MaxPromptHistory == 4    \* messages of a history handed to a builder at most

prompt_history_window == 3     \* code_prompts.py: conversation_history[-3:]
history_content_chars == 200   \* code_prompts.py: msg['content'][:200]

generation_task_words == {<<"c", "r", "e", "a", "t", "e">>, <<"g", "e", "n", "e", "r", "a", "t", "e">>, <<"w", "r", "i", "t", "e">>, <<"i", "m", "p", "l", "e", "m", "e", "n", "t">>, <<"b", "u", "i", "l", "d">>}
debugging_task_words == {<<"f", "i", "x">>, <<"d", "e", "b", "u", "g">>, <<"e", "r", "r", "o", "r">>, <<"b", "u", "g">>, <<"i", "s", "s", "u", "e">>, <<"p", "r", "o", "b", "l", "e", "m">>}
review_task_words == {<<"r", "e", "v", "i", "e", "w">>, <<"i", "m", "p", "r", "o", "v", "e">>, <<"o", "p", "t", "i", "m", "i", "z", "e">>, <<"r", "e", "f", "a", "c", "t", "o", "r">>}
explanation_task_words == {<<"e", "x", "p", "l", "a", "i", "n">>, <<"h", "o", "w">>, <<"w", "h", "a", "t">>, <<"w", "h", "y">>, <<"u", "n", "d", "e", "r", "s", "t", "a", "n", "d">>}

\* task_type of build_code_generation_prompt
generation_task_type(request) ==
    LET request_lower == lower(request)
    IN  IF \E word \in generation_task_words : Occurs(word, request_lower) THEN "generation"
        ELSE IF \E word \in debugging_task_words : Occurs(word, request_lower) THEN "debugging"
        ELSE IF \E word \in review_task_words : Occurs(word, request_lower) THEN "review"
        ELSE IF \E word \in explanation_task_words : Occurs(word, request_lower) THEN "explanation"
        ELSE "general"

\* history_text of build_code_generation_prompt: one line per message of
\* conversation_history[-3:], f"{role}: {msg['content'][:200]}...\n\n"
history_text(conversation_history) ==
    LET recent == LastN(conversation_history, prompt_history_window)
    IN  [k \in 1..Len(recent) |->
            [role |-> IF recent[k].role = "user" THEN "User" ELSE "Assistant",
             text |-> FirstN(recent[k].content, history_content_chars) \o <<".", ".", ".">>]]

build_code_generation_prompt(context, request, conversation_history) ==
    [task    |-> generation_task_type(request),
     context |-> context,
     request |-> request,
     history |-> history_text(conversation_history)]

\* The templates of the three builders below interpolate the system prompt,
\* the context analysis, the context and the request; conversation_history
\* is a parameter none of them reads.
build_debugging_prompt(context, error_message, conversation_history) ==
    [task |-> "Debugging Task", context |-> context, request |-> error_message,
     history |-> <<>>]

build_architecture_prompt(context, request, conversation_history) ==
    [task |-> "Architecture & Design Task", context |-> context, request |-> request,
     history |-> <<>>]

build_code_review_prompt(context, code_to_review, conversation_history) ==
    [task |-> "Code Review Task", context |-> context, request |-> code_to_review,
     history |-> <<>>]

\* The prompt RAGPipeline._build_intelligent_prompt returns
composed_prompt(query, context, conversation_history) ==
    LET builder == _build_intelligent_prompt(query)
    IN  IF builder = "build_debugging_prompt"
        THEN build_debugging_prompt(context, query, conversation_history)
        ELSE IF builder = "build_architecture_prompt"
        THEN build_architecture_prompt(context, query, conversation_history)
        ELSE IF builder = "build_code_review_prompt"
        THEN build_code_review_prompt(context, query, conversation_history)
        ELSE build_code_generation_prompt(context, query, conversation_history)

ComposerQueries ==
    {<<"w", "r", "i", "t", "e", " ", "a", " ", "p", "a", "r", "s", "e", "r">>, <<"f", "i", "x", " ", "t", "h", "e", " ", "p", "a", "r", "s", "e", "r">>, <<"d", "e", "s", "i", "g", "n", " ", "t", "h", "e", " ", "p", "a", "r", "s", "e", "r">>, <<"r", "e", "v", "i", "e", "w", " ", "t", "h", "e", " ", "p", "a", "r", "s", "e", "r">>,
     <<"h", "e", "l", "l", "o">>}

\* A content of n characters
ContentOf(n) == [i \in 1..n |-> "a"]

HistoryMessages ==
    {[role |-> r, content |-> ContentOf(n)] :
        r \in {"user", "assistant"},
        n \in {1, history_content_chars, history_content_chars + 1}}

PromptHistories == UNION {[1..n -> HistoryMessages] : n \in 0..MaxPromptHistory}

ComposerCalls ==
    {[fn |-> "composed_prompt", done |-> FALSE, message |-> q, history |-> h] :
        q \in ComposerQueries, h \in PromptHistories}

call_composed_prompt ==
    /\ call.fn = "composed_prompt"
    /\ ~call.done
    /\ returned' = composed_prompt(call.message, NoContext, call.history)
    /\ call' = [call EXCEPT !.done = TRUE]
    /\ UNCHANGED <<sessionVars, chatVars, storeVars, ingestVars, histVars, chunkVars>>

InitPrompt ==
    /\ InitSessionsIdle
    /\ InitChatIdle
    /\ InitStoreIdle
    /\ InitIngestIdle
    /\ InitHistIdle
    /\ InitChunkIdle
    /\ call \in ComposerCalls
    /\ returned = "none"

NextPrompt == call_composed_prompt

SpecPrompt == InitPrompt /\ [][NextPrompt]_vars

\* The lines of a prompt are the last n messages of the history, in order,
\* each under the label of its role and starting with its content (cut to
\* the builder's limit)
RendersLast(lines, history, n) ==
    LET recent == LastN(history, n)
    IN  /\ Len(lines) = Len(recent)
        /\ \A k \in 1..Len(lines) :
              /\ lines[k].role = (IF recent[k].role = "user" THEN "User" ELSE "Assistant")
              /\ IsPrefix(FirstN(recent[k].content, history_content_chars), lines[k].text)

\* C23: for a query of each task type (generation, debugging, architecture,
\* review) the composed prompt renders the last min(N, len(history))
\* messages of the history, in their order, as User / Assistant lines and no
\* older message, N being the window of the builders (3).
C23_PromptRendersRecentHistory ==
    (call.fn = "composed_prompt" /\ call.done) =>
       RendersLast(returned.history, call.history, prompt_history_window)

\* The part of C23 the code keeps: the generation builder
GenerationPromptRendersHistory ==
    (call.fn = "composed_prompt" /\ call.done
        /\ _build_intelligent_prompt(call.message) = "build_code_generation_prompt") =>
       RendersLast(returned.history, call.history, prompt_history_window)


(***************************************************************************)
(* Specification of a client that sends its code-assistant requests one     *)
(* after the other and reads every stream to its end: a request is sent     *)
(* only when no other request is in flight, and no stream is abandoned.     *)
(***************************************************************************)
NoneInFlight == \A q \in Req : rq[q].pc \in {"idle", "done"}

chat_code_assistant_sequential(r, message, csid) ==
    /\ NoneInFlight
    /\ chat_code_assistant(r, message, csid)

NextSequential ==
    \/ \E r \in Req, m \in Messages, csid \in sessions \cup {ClientUuid} :
          chat_code_assistant_sequential(r, m, csid)
    \/ \E r \in Req : generate_response_rag(r)
    \/ \E r \in Req : generate_response_direct(r)
    \/ \E r \in Req : generate_response_not_ready(r)
    \/ \E r \in Req : finish(r)

SpecSequential == Init /\ [][NextSequential]_vars

\* h is user, assistant, user, assistant, ..., each assistant message being
\* the one of the request of the user message before it
Alternates(h) ==
    /\ Len(h) % 2 = 0
    /\ \A i \in 1..Len(h) :
          IF i % 2 = 1
          THEN h[i].role = "user"
          ELSE h[i].role = "assistant" /\ h[i].req = h[i - 1].req

\* C24: when the code-assistant requests of a session were sent one after
\* the other and each stream was read to its end, whatever branch each
\* request took, the history of the session alternates user, assistant,
\* every user message directly followed by the assistant message of its
\* request.
C24_SequentialHistoryAlternates ==
    (NoneInFlight /\ \E r \in Req : rq[r].pc = "done") =>
       \A s \in sessions : Alternates(conversation_histories[s])

\* The part of C24 the code keeps: the requests that took the no-context or
\* the RAG branch
SequentialAnsweredAlternates ==
    (NoneInFlight /\ \A r \in Req : rq[r].branch # "not_ready") =>
       \A s \in sessions : Alternates(conversation_histories[s])


\* Number of entries of seq that equal x
Count(seq, x) == Cardinality({i \in 1..Len(seq) : seq[i] = x})

\* The entry of a message list that carries the user message of request r
OwnMessage(r) == [role |-> "user", content |-> rq[r].message]

\* No other request of the session of r has the same text
MessageTextUnique(r) ==
    \A q \in Req \ {r} :
        (rq[q].pc # "idle" /\ rq[q].session_id = rq[r].session_id)
           => rq[q].message # rq[r].message

\* C25: the history an endpoint read with get_conversation_history before it
\* appended the user message does not hold that user message afterwards, and
\* the message list built for the generator (general chat, no-context
\* branch) holds the current user message exactly once.
C25_HistoryIsStateBeforeRequest ==
    \A r \in Req :
        rq[r].pc # "idle" =>
           LET seen == Deref(rq[r].conversation_history, conversation_histories)
           IN  /\ \A i \in 1..Len(seen) : ~(seen[i].role = "user" /\ seen[i].req = r)
               /\ (rq[r].llm_messages # <<>> /\ MessageTextUnique(r))
                     => Count(rq[r].llm_messages, OwnMessage(r)) = 1


\* C26: get_or_create_session is idempotent on the supplied id: two requests
\* that carry the same client-chosen session_id are served under the same
\* backend session.
C26_SessionIdResolvesOnce ==
    \A r1, r2 \in Req :
        (rq[r1].pc # "idle" /\ rq[r2].pc # "idle" /\ rq[r1].client_sid = rq[r2].client_sid)
           => rq[r1].session_id = rq[r2].session_id

\* The part of C26 the code keeps: an id the backend issued resolves to itself
IssuedSessionIdResolves ==
    \A r \in Req :
        (rq[r].pc # "idle" /\ rq[r].client_sid # ClientUuid)
           => rq[r].session_id = rq[r].client_sid


\* C27: the chunks_added of the result of RAGPipeline.add_document is the
\* number of records the call has inserted into the vector store, for the
\* outcomes success, warning and error; when chunk k raises after k - 1
\* insertions, the store holds no chunk of the document or the result
\* reports k - 1.
C27_ChunksAddedIsInserted ==
    (call.fn = "add_document" /\ call.done) =>
       returned.chunks_added = Cardinality(StoredOf(dbRecords, AddedDocument))

\* The part of C27 the code keeps: the outcomes success and warning, and an
\* error before the first insertion
ChunksAddedIsInsertedUnlessPartial ==
    (call.fn = "add_document" /\ call.done
        /\ (call.chunking_raises \/ call.raises_at \notin 2..call.n)) =>
       returned.chunks_added = Cardinality(StoredOf(dbRecords, AddedDocument))


\* The chunks come from the pattern tier or from the markdown heading strategy
StructureSplit ==
    /\ phase # "input"
    /\ chunks # <<>>
    /\ chunks[1].chunk_type \in {"regex_function", "markdown_section"}

\* Line i (1-based) of the input is in chunk c: c spans it and holds its text
LineInChunk(lines, i, c) ==
    /\ c.start_line <= i
    /\ i <= c.end_line
    /\ split(c.content, "\n")[i - c.start_line + 1] = lines[i]

\* C28: when the pattern tier or the markdown heading strategy splits a
\* text, every line of the text that is not blank is in at least one chunk,
\* the lines before the first boundary or heading included.
C28_StructureSplitLosesNothing ==
    StructureSplit =>
       LET lines == split(content, "\n")
       IN  \A i \in 1..Len(lines) :
              strip(lines[i]) # <<>> =>
                 \E j \in 1..Len(chunks) : LineInChunk(lines, i, chunks[j])

\* The part of C28 the code keeps: every line from the first boundary or
\* heading on is in exactly one chunk
StructureSplitCoversFromFirstBoundary ==
    StructureSplit =>
       LET lines == split(content, "\n")
       IN  \A i \in chunks[1].start_line..Len(lines) :
              Cardinality({j \in 1..Len(chunks) : LineInChunk(lines, i, chunks[j])}) = 1


(***************************************************************************)
(* routers/sessions.py next to routers/chat.py.  Each module builds its own *)
(* SessionService at import: the chat endpoints work on sessions and        *)
(* conversation_histories, the sessions router on sessions_router (the      *)
(* conversation_histories of its own instance).  call is the last request   *)
(* to the sessions router, numbered by seq; returned is its response.       *)
(***************************************************************************)
MaxRouterMessages == 3   \* messages appended through the chat endpoints at most
MaxRouterCalls == 3      \* requests to the sessions router at most

StoredMessages ==
    LET RECURSIVE Sum(_)
        Sum(S) == IF S = {} THEN 0
                  ELSE LET x == CHOOSE y \in S : TRUE
                       IN  Len(conversation_histories[x]) + Sum(S \ {x})
    IN  Sum(DOMAIN conversation_histories)

RouterCallsMade == IF call.fn = "none" THEN 0 ELSE call.seq

\* chat.py lines 66-73 and 116-123: the session of the request, then the
\* user message is appended in the chat router's SessionService
chat_add_user_message(csid, message) ==
    /\ StoredMessages < MaxRouterMessages
    /\ LET g == get_or_create_session(sessions, conversation_histories, nextUuid, csid)
       IN  /\ sessions' = g.sessions
           /\ nextUuid' = g.nextUuid
           /\ conversation_histories' =
                 add_message_to_history(g.histories, g.session_id, Msg("user", message, 0))
    /\ UNCHANGED <<callVars, chatVars, storeVars, ingestVars, histVars, chunkVars>>

\* GET /{session_id}/history
get_session_history(session_id) ==
    /\ RouterCallsMade < MaxRouterCalls
    /\ LET messages == get_conversation_history(sessions_router, session_id)
       IN  returned' = [session_id |-> session_id, messages |-> messages,
                        message_count |-> Len(messages)]
    /\ call' = [fn |-> "get_session_history", session_id |-> session_id,
                seq |-> RouterCallsMade + 1]
    /\ UNCHANGED <<sessionVars, chatVars, storeVars, ingestVars, histVars, chunkVars>>

\* POST /{session_id}/clear
clear_session_history(session_id) ==
    /\ RouterCallsMade < MaxRouterCalls
    /\ LET cleared == clear_conversation_history(sessions_router, session_id)
       IN  /\ sessions_router' = cleared.histories
           /\ returned' = [status |-> "cleared", messages_cleared |-> cleared.cleared]
    /\ call' = [fn |-> "clear_session_history", session_id |-> session_id,
                seq |-> RouterCallsMade + 1]
    /\ UNCHANGED <<sessionVars, chatVars, storeVars, ingestVars, msgSeq, chunkVars>>

InitRouters ==
    /\ InitSessionsIdle
    /\ InitChatIdle
    /\ InitStoreIdle
    /\ InitIngestIdle
    /\ InitHistIdle
    /\ InitChunkIdle
    /\ InitCallIdle

NextRouters ==
    \/ \E csid \in sessions \cup {ClientUuid}, m \in Messages : chat_add_user_message(csid, m)
    \/ \E s \in sessions : get_session_history(s)
    \/ \E s \in sessions : clear_session_history(s)

SpecRouters == InitRouters /\ [][NextRouters]_vars

\* The step is a request to the sessions router
RouterRequest(fn) == call'.fn = fn /\ RouterCallsMade' = RouterCallsMade + 1

\* C29: the sessions router works on the history the chat endpoints write:
\* GET /{s}/history returns the messages appended to s through a chat
\* endpoint, and POST /{s}/clear returns the number of messages that were
\* stored for s and leaves the history chat requests read for s empty.
C29_SharedSessionStore ==
    [][ /\ RouterRequest("get_session_history") =>
              returned'.messages =
                  get_conversation_history(conversation_histories, call'.session_id)
        /\ RouterRequest("clear_session_history") =>
              /\ returned'.messages_cleared =
                    Len(get_conversation_history(conversation_histories, call'.session_id))
              /\ get_conversation_history(conversation_histories', call'.session_id) = <<>>
      ]_vars

\* What the sessions router does instead: it answers from a store no
\* endpoint writes to, and leaves the chat endpoints' histories as they are
SessionsRouterSeesNothing ==
    /\ sessions_router = EmptyMap
    /\ call.fn = "get_session_history" => returned.message_count = 0
    /\ call.fn = "clear_session_history" => returned.messages_cleared = 0


\* The collection was dropped and recreated by some clear_collection call
Recreated == \E j \in 1..Len(clearLog) : clearLog[j].dropped

\* The instance operates on the collection stored now
OperatesOnCurrent(inst) ==
    /\ health_check(inst)
    /\ total_chunks(inst) = Len(dbRecords)
    /\ is_ready(inst)
    /\ query_similar(inst, top_k, FALSE).results = QueryResults(dbRecords, top_k)

\* C30: once the knowledge base was cleared through some entry point and
\* chunks were ingested again, every long-lived instance (chat, admin and
\* code-assistant router) operates on the recreated collection: its health
\* check passes, its stats report the chunks ingested again, its is_ready is
\* true and its queries return those chunks.
C30_InstancesFollowRecreation ==
    (Recreated /\ dbRecords # <<>>) =>
       \A inst \in {"chat", "admin", "code_assistant"} : OperatesOnCurrent(inst)

\* The part of C30 the code keeps: the instance whose clear_collection
\* recreated the collection last operates on it
ClearingInstanceFollowsRecreation ==
    (Recreated /\ dbRecords # <<>>) =>
       LET last == CHOOSE j \in 1..Len(clearLog) :
                      /\ clearLog[j].dropped
                      /\ \A i \in (j + 1)..Len(clearLog) : ~clearLog[i].dropped
       IN  OperatesOnCurrent(clearLog[last].inst)

====
